---- MODULE Spec2Model ----
(***************************************************************************)
(* plex-mcp-server: the connection manager (PlexClient), the permission-   *)
(* gated registration of the tools of PlexMediaTools and PlexPlaylistTools *)
(* on the shared FastMCP instance, and the calls served through it.        *)
(*                                                                         *)
(* Scheduling: every tool is an "async def" awaited on one asyncio event   *)
(* loop.  PlexClient.connection and PlexClient._connect are synchronous,   *)
(* so a call keeps the loop from its first statement to its return or to   *)
(* its next await (the only await of the two modules is the download in    *)
(* playlist_upload_poster).  The network requests inside such a segment    *)
(* still take time: the clock and the remote server change between them.   *)
(* The clock has the granularity of the model's ticks: the statement that  *)
(* directly follows the return of a network request reads the clock value  *)
(* at which the request returned.                                          *)
(***************************************************************************)
EXTENDS Integers, Sequences, FiniteSets, TLC

(* ------------------------------ bounds ------------------------------- *)

\* number of inbound calls that can be in flight at once
NumTasks == 2
\* reading of datetime.now().timestamp() when the process starts
Epoch == 2000
\* how far the clock advances in a behaviour
MaxElapsed == 3602
\* number of PlexMcpServer objects built in one process
MaxServers == 3
\* the largest number of entities one title matches
MaxMatches == 11
\* the largest number of entries in the answer to a search
MaxResults == 2
\* the largest number of titles in item_titles
MaxTitles == 2
Tasks == 1 .. NumTasks

(* ------------------------------ const.py ----------------------------- *)

READ == "read"
WRITE == "write"
DELETE == "delete"
PermissionsType == {READ, WRITE, DELETE}

SESSION_TIMEOUT == 60 * 30

\* the advances of the clock between two steps: a whole staleness window, or
\* one second more
TickSteps == {SESSION_TIMEOUT, SESSION_TIMEOUT + 1}

(* ------------------------- configuration ----------------------------- *)

plex_url == "http://plex:32400"
plex_token == "TOKEN"

\* the modules of server.py whose source is at hand, in the order of the
\* list PlexMcpServer.__init__ builds
ModuleOrder == <<"media", "playlist">>
Modules == {ModuleOrder[i] : i \in 1 .. Len(ModuleOrder)}

(* --------------------- the tools of the two modules ------------------ *)

\* PlexMediaTools.__init__: the list "tools" as a sequence of method names
MediaReadTools ==
    <<"media_search", "media_get_details", "media_get_artwork",
      "media_list_available_artwork">>
MediaWriteTools == <<"media_edit_metadata", "media_set_artwork">>
MediaDeleteTools == <<"media_delete">>

MediaToolsMutantNoTier(permissions) ==
    MediaReadTools \o MediaWriteTools \o MediaDeleteTools

MediaToolsMutantWriteGetsDelete(permissions) ==
    MediaReadTools
      \o (IF permissions \in {WRITE, DELETE}
            THEN MediaWriteTools \o MediaDeleteTools ELSE << >>)

MediaTools(permissions) ==
    MediaReadTools
      \o (IF permissions \in {WRITE, DELETE} THEN MediaWriteTools ELSE << >>)
      \o (IF permissions = DELETE THEN MediaDeleteTools ELSE << >>)

\* PlexPlaylistTools.__init__
PlaylistReadTools == <<"playlist_list", "playlist_get_contents">>
PlaylistWriteTools ==
    <<"playlist_create", "playlist_edit", "playlist_upload_poster",
      "playlist_copy_to_user", "playlist_add_to">>
PlaylistDeleteTools == <<"playlist_delete", "playlist_remove_from">>

PlaylistToolsMutantReadGetsWrite(permissions) ==
    PlaylistReadTools \o PlaylistWriteTools
      \o (IF permissions = DELETE THEN PlaylistDeleteTools ELSE << >>)

PlaylistTools(permissions) ==
    PlaylistReadTools
      \o (IF permissions \in {WRITE, DELETE} THEN PlaylistWriteTools ELSE << >>)
      \o (IF permissions = DELETE THEN PlaylistDeleteTools ELSE << >>)

ModuleTools(m, permissions) ==
    IF m = "media" THEN MediaTools(permissions) ELSE PlaylistTools(permissions)

Range(s) == {s[i] : i \in 1 .. Len(s)}

\* the methods of the two classes by the branch of __init__ that lists them
TierTools(m, tier) ==
    IF m = "media"
      THEN CASE tier = READ -> Range(MediaReadTools)
             [] tier = WRITE -> Range(MediaWriteTools)
             [] OTHER -> Range(MediaDeleteTools)
      ELSE CASE tier = READ -> Range(PlaylistReadTools)
             [] tier = WRITE -> Range(PlaylistWriteTools)
             [] OTHER -> Range(PlaylistDeleteTools)

\* every method of the two classes that can be registered, by module
AllTools(m) == UNION {TierTools(m, tier) : tier \in PermissionsType}
ToolNames == UNION {AllTools(m) : m \in Modules}
\* a name no module defines
UnknownName == "no_such_tool"
CallNames == ToolNames \cup {UnknownName}

\* a tool handed to add_tool is a bound method: the function "fn" of the tool
\* object of module "module" that the PlexMcpServer number "server" of this
\* process built
BoundMethod(server, m, name) == [module |-> m, fn |-> name, server |-> server]
BoundMethods(server, m, names) ==
    [i \in 1 .. Len(names) |-> BoundMethod(server, m, names[i])]

add_toolMutantLastWins(tools, tool) ==
    [n \in DOMAIN tools \cup {tool.fn} |-> IF n = tool.fn THEN tool ELSE tools[n]]

add_toolMutantDropsDuplicate(tools, tool) ==
    IF tool.fn \in DOMAIN tools
      THEN [n \in DOMAIN tools \ {tool.fn} |-> tools[n]]
      ELSE [n \in DOMAIN tools \cup {tool.fn} |->
              IF n = tool.fn THEN tool ELSE tools[n]]

\* FastMCP.add_tool with warn_on_duplicate_tools=False: the tool is stored
\* under the function's name; a name already present keeps its entry
add_tool(tools, tool) ==
    IF tool.fn \in DOMAIN tools
      THEN tools
      ELSE [n \in DOMAIN tools \cup {tool.fn} |->
              IF n = tool.fn THEN tool ELSE tools[n]]

AddToolRaisesMutantOnDuplicate(tools, tool) == tool.fn \in DOMAIN tools

\* whether add_tool raises: with warn_on_duplicate_tools=False a name that is
\* already present is neither reported nor refused
AddToolRaises(tools, tool) == FALSE

\* PlexMcpTools.__init__: "for tool in tools: mcp.add_tool(tool)"; the loop
\* ends at the first add_tool that raises
RECURSIVE RegisterAll(_, _)
RegisterAll(tools, list) ==
    IF list = << >> \/ AddToolRaises(tools, Head(list))
      THEN tools
      ELSE RegisterAll(add_tool(tools, Head(list)), Tail(list))

RECURSIVE RegisterRaises(_, _)
RegisterRaises(tools, list) ==
    /\ list # << >>
    /\ \/ AddToolRaises(tools, Head(list))
       \/ RegisterRaises(add_tool(tools, Head(list)), Tail(list))

(* ------------------------ remote calls of the tools ------------------ *)

\* the requests the body of a tool of PlexMediaTools can send
MediaBodyCalls(fn) ==
    CASE fn = "media_search" -> {"requests.get"}
      [] fn = "media_get_details" ->
           {"plex.fetchItem", "plex.library.section", "library.search", "plex.search"}
      [] fn = "media_edit_metadata" ->
           {"plex.library.section", "library.search", "plex.search", "media.edit",
            "media.addGenre", "media.removeGenre", "media.addLabel",
            "media.removeLabel"}
      [] fn = "media_get_artwork" ->
           {"plex.fetchItem", "plex.library.section", "library.search", "plex.search",
            "requests.get"}
      [] fn = "media_delete" ->
           {"plex.fetchItem", "plex.library.section", "library.search", "plex.search",
            "media.delete"}
      [] fn = "media_set_artwork" ->
           {"plex.library.section", "library.search", "plex.search",
            "media.uploadPoster", "media.uploadArt"}
      [] fn = "media_list_available_artwork" ->
           {"plex.fetchItem", "plex.library.section", "library.search", "plex.search",
            "media.posters", "media.arts"}
      [] OTHER -> {}

\* the requests the body of a tool of PlexPlaylistTools can send before its
\* first await
PlaylistBodyCalls(fn) ==
    CASE fn = "playlist_list" ->
           {"plex.playlists", "plex.library.section", "library.playlists"}
      [] fn = "playlist_create" ->
           {"plex.library.section", "search_scope.search", "plex.createPlaylist"}
      [] fn = "playlist_edit" ->
           {"plex.fetchItem", "plex.playlists", "playlist.items", "playlist.edit"}
      [] fn = "playlist_upload_poster" ->
           {"plex.fetchItem", "plex.playlists", "playlist.items",
            "playlist.uploadPoster"}
      [] fn = "playlist_copy_to_user" ->
           {"plex.fetchItem", "plex.playlists", "playlist.items",
            "plex.myPlexAccount", "account.users", "playlist.copyToUser"}
      [] fn = "playlist_add_to" ->
           {"plex.fetchItem", "plex.playlists", "playlist.items",
            "plex.library.search", "playlist.addItems"}
      [] fn = "playlist_remove_from" ->
           {"plex.fetchItem", "plex.playlists", "playlist.items",
            "playlist.removeItems"}
      [] fn = "playlist_delete" ->
           {"plex.fetchItem", "plex.playlists", "playlist.items", "playlist.delete"}
      [] fn = "playlist_get_contents" ->
           {"plex.fetchItem", "plex.playlists", "playlist.items"}
      [] OTHER -> {}

BodyCalls(fn) == MediaBodyCalls(fn) \cup PlaylistBodyCalls(fn)

\* the tools that await (aiohttp download of poster_url) and the requests
\* they can send after it
Awaits(fn) == fn = "playlist_upload_poster"
ResumedCalls(fn) ==
    IF fn = "playlist_upload_poster" THEN {"playlist.uploadPoster"} ELSE {}

AcquiresMutantNever(fn) == FALSE

\* the tools whose first statement is "plex = self._plex_client.connection"
Acquires(fn) == fn # "media_search"

\* requests that change the server's data, and among them the destructive ones
DestructiveCalls == {"media.delete", "playlist.delete", "playlist.removeItems"}
MutatingCalls ==
    {"media.edit", "media.addGenre", "media.removeGenre", "media.addLabel",
     "media.removeLabel", "media.uploadPoster", "media.uploadArt",
     "plex.createPlaylist", "playlist.edit", "playlist.uploadPoster",
     "playlist.copyToUser", "playlist.addItems"} \cup DestructiveCalls

(* ------------------------------ PlexClient --------------------------- *)

\* "None", and the identities of the PlexServer objects of one PlexClient:
\* one stored, one per call in flight
None == 0
Handles == 1 .. (NumTasks + 1)

NewPlexClientMutantEager == [_connection |-> 1, _last_connection_time |-> Epoch]

\* PlexClient.__init__
NewPlexClient == [_connection |-> None, _last_connection_time |-> 0]

\* the outcome of a call of the property "connection"; "at" is the clock
\* reading when the caller received it
NoOutcome ==
    [kind |-> "none", value |-> None, exc |-> "", message |-> << >>, at |-> 0]
Returned(value) ==
    [kind |-> "return", value |-> value, exc |-> "", message |-> << >>, at |-> 0]
Raised(exc, message) ==
    [kind |-> "raise", value |-> None, exc |-> exc, message |-> message, at |-> 0]

NeedsConnectMutantAtThreshold(client, clock) ==
    \/ client._connection = None
    \/ clock - client._last_connection_time >= SESSION_TIMEOUT

NeedsConnectMutantNeverStale(client, clock) == client._connection = None

\* line 36-38: the condition under which connection calls _connect
NeedsConnect(client, clock) ==
    \/ client._connection = None
    \/ clock - client._last_connection_time > SESSION_TIMEOUT

ConnectConstructedMutantNotStored(client, h) == client

ConnectConstructedMutantFirstWriterWins(client, h) ==
    IF client._connection = None THEN [client EXCEPT !._connection = h] ELSE client

\* _connect, line 19: the constructor returned and its object is stored
ConnectConstructed(client, h) == [client EXCEPT !._connection = h]

ConnectExceptMutantKeepsHandle(client) ==
    [client EXCEPT !._last_connection_time = 0]

\* _connect, line 24-26: the except clause
ConnectExcept(client) ==
    [client EXCEPT !._connection = None, !._last_connection_time = 0]

ConnectRaiseMutantNoUrl(url, cause) ==
    Raised("ConnectionError", <<"Failed to connect to Plex server: ", cause>>)

ConnectRaiseMutantReraises(url, cause) ==
    Raised(cause, <<"Failed to connect to Plex server at ", url, ": ", cause>>)

\* _connect, line 27-29: the error the except clause raises
ConnectRaise(url, cause) ==
    Raised("ConnectionError",
           <<"Failed to connect to Plex server at ", url, ": ", cause>>)

ConnectElseMutantKeepsTime(client, clock) == client

\* _connect, line 30-31: the else clause
ConnectElse(client, clock) == [client EXCEPT !._last_connection_time = clock]

\* connection, line 41-44
ConnectionResult(client) ==
    IF client._connection = None
      THEN Raised("ConnectionError", <<"Failed to connect to Plex server.">>)
      ELSE Returned(client._connection)

\* what the constructor or the probe raises when the server does not answer
\* as expected (subclasses of Exception of requests and plexapi)
RemoteStates == {"up", "down"}
Causes == {"ConnectTimeout", "Unauthorized"}

(* ---------------------- the answers of the tools --------------------- *)

\* a return statement of a tool: its line, the path it ends (success, error,
\* or the answer to a title that matched several entities), whether
\* json.dumps is given a dict ("object") or a list ("array"), the value of
\* the key "status" ("absent" when the dict has none), whether it stands in
\* the handler of the tool's outermost try, and the keys of the dict
Ret(line, path, json, status, outer, keys) ==
    [line |-> line, path |-> path, json |-> json, status |-> status,
     outer |-> outer, keys |-> keys]

\* the return statements of the tools of PlexMediaTools
MediaReturns(fn) ==
    CASE fn = "media_search" ->
           {Ret(104, "success", "object", "success", FALSE,
                {"status", "message", "count", "results"}),
            Ret(248, "success", "object", "success", FALSE,
                {"status", "message", "query", "content_type", "total_count", "results_by_type"}),
            Ret(260, "error", "object", "error", TRUE,
                {"status", "message"})}
      [] fn = "media_get_details" ->
           {Ret(282, "error", "object", "error", FALSE,
                {"status", "message"}),
            Ret(296, "error", "object", "error", FALSE,
                {"status", "message"}),
            Ret(309, "error", "object", "error", FALSE,
                {"status", "message"}),
            Ret(319, "error", "object", "error", FALSE,
                {"status", "message"}),
            Ret(354, "ambiguous", "object", "multiple_results", FALSE,
                {"status", "message", "count", "results"}),
            Ret(532, "success", "object", "success", FALSE,
                {"status", "details"}),
            Ret(535, "error", "object", "error", TRUE,
                {"status", "message"})}
      [] fn = "media_edit_metadata" ->
           {Ret(589, "error", "object", "error", FALSE,
                {"status", "message"}),
            Ret(599, "error", "object", "error", FALSE,
                {"status", "message"}),
            Ret(626, "ambiguous", "object", "multiple_results", FALSE,
                {"status", "message", "count", "results"}),
            Ret(745, "success", "object", "no_changes", FALSE,
                {"status", "message"}),
            Ret(752, "success", "object", "success", FALSE,
                {"status", "message", "changes", "title", "type"}),
            Ret(764, "error", "object", "error", TRUE,
                {"status", "message"})}
      [] fn = "media_get_artwork" ->
           {Ret(795, "error", "object", "error", FALSE,
                {"status", "message"}),
            Ret(804, "error", "object", "error", FALSE,
                {"status", "message"}),
            Ret(818, "error", "object", "error", FALSE,
                {"status", "message"}),
            Ret(831, "error", "object", "error", FALSE,
                {"status", "message"}),
            Ret(841, "error", "object", "error", FALSE,
                {"status", "message"}),
            Ret(849, "ambiguous", "object", "error", FALSE,
                {"status", "message"}),
            Ret(866, "error", "object", "error", FALSE,
                {"status", "message"}),
            Ret(903, "success", "object", "success", FALSE,
                {"status", "message", "title", "art_type", "file_path", "file_size"}),
            Ret(924, "success", "object", "success", FALSE,
                {"status", "title", "art_type", "content_type", "size", "data", "url"}),
            Ret(937, "error", "object", "error", TRUE,
                {"status", "message"})}
      [] fn = "media_delete" ->
           {Ret(959, "error", "object", "error", FALSE,
                {"status", "message"}),
            Ret(973, "error", "object", "error", FALSE,
                {"status", "message"}),
            Ret(986, "error", "object", "error", FALSE,
                {"status", "message"}),
            Ret(996, "error", "object", "error", FALSE,
                {"status", "message"}),
            Ret(1023, "ambiguous", "object", "multiple_results", FALSE,
                {"status", "message", "count", "results"}),
            Ret(1042, "success", "object", "success", FALSE,
                {"status", "message", "deleted_title", "deleted_type"}),
            Ret(1052, "error", "object", "error", TRUE,
                {"status", "message"})}
      [] fn = "media_set_artwork" ->
           {Ret(1085, "error", "object", "error", FALSE,
                {"status", "message"}),
            Ret(1098, "error", "object", "error", FALSE,
                {"status", "message"}),
            Ret(1108, "error", "object", "error", FALSE,
                {"status", "message"}),
            Ret(1135, "ambiguous", "object", "multiple_results", FALSE,
                {"status", "message", "count", "results"}),
            Ret(1154, "error", "object", "error", FALSE,
                {"status", "message"}),
            Ret(1170, "error", "object", "error", FALSE,
                {"status", "message"}),
            Ret(1180, "success", "object", "success", FALSE,
                {"status", "message", "changes", "title", "type"}),
            Ret(1191, "error", "object", "error", TRUE,
                {"status", "message"})}
      [] fn = "media_list_available_artwork" ->
           {Ret(1215, "error", "object", "error", FALSE,
                {"status", "message"}),
            Ret(1224, "error", "object", "error", FALSE,
                {"status", "message"}),
            Ret(1238, "error", "object", "error", FALSE,
                {"status", "message"}),
            Ret(1251, "error", "object", "error", FALSE,
                {"status", "message"}),
            Ret(1261, "error", "object", "error", FALSE,
                {"status", "message"}),
            Ret(1269, "ambiguous", "object", "error", FALSE,
                {"status", "message"}),
            Ret(1305, "success", "object", "success", FALSE,
                {"status", "title", "type", "art_type", "available_count", "available_artwork"}),
            Ret(1318, "error", "object", "error", TRUE,
                {"status", "message"})}
      [] OTHER -> {}

\* the return statements of the tools of PlexPlaylistTools
PlaylistReturns(fn) ==
    CASE fn = "playlist_list" ->
           {Ret(64, "error", "object", "absent", FALSE,
                {"error"}),
            Ret(84, "error", "object", "absent", FALSE,
                {"error"}),
            Ret(119, "success", "array", "absent", FALSE,
                {}),
            Ret(121, "error", "object", "absent", TRUE,
                {"error"})}
      [] fn = "playlist_create" ->
           {Ret(157, "error", "object", "error", FALSE,
                {"status", "message"}),
            Ret(163, "error", "object", "error", FALSE,
                {"status", "message"}),
            Ret(173, "success", "object", "success", FALSE,
                {"status", "message", "data"}),
            Ret(187, "error", "object", "error", TRUE,
                {"status", "message"})}
      [] fn = "playlist_edit" ->
           {Ret(209, "error", "object", "absent", FALSE,
                {"error"}),
            Ret(233, "error", "object", "absent", FALSE,
                {"error"}),
            Ret(239, "error", "object", "absent", FALSE,
                {"error"}),
            Ret(250, "error", "object", "absent", FALSE,
                {"error"}),
            Ret(271, "ambiguous", "array", "absent", FALSE,
                {}),
            Ret(294, "success", "object", "absent", FALSE,
                {"updated", "title", "message"}),
            Ret(303, "success", "object", "absent", FALSE,
                {"updated", "title", "changes"}),
            Ret(307, "error", "object", "absent", TRUE,
                {"error"})}
      [] fn = "playlist_upload_poster" ->
           {Ret(329, "error", "object", "absent", FALSE,
                {"error"}),
            Ret(336, "error", "object", "absent", FALSE,
                {"error"}),
            Ret(342, "error", "object", "absent", FALSE,
                {"error"}),
            Ret(365, "error", "object", "absent", FALSE,
                {"error"}),
            Ret(370, "error", "object", "absent", FALSE,
                {"error"}),
            Ret(381, "error", "object", "absent", FALSE,
                {"error"}),
            Ret(401, "ambiguous", "object", "absent", FALSE,
                {"error", "matches"}),
            Ret(422, "error", "object", "absent", FALSE,
                {"error"}),
            Ret(429, "error", "object", "absent", FALSE,
                {"error"}),
            Ret(436, "error", "object", "absent", FALSE,
                {"error"}),
            Ret(444, "error", "object", "absent", FALSE,
                {"error"}),
            Ret(451, "success", "object", "success", FALSE,
                {"status", "message"}),
            Ret(459, "error", "object", "absent", FALSE,
                {"error"}),
            Ret(464, "error", "object", "absent", TRUE,
                {"error"})}
      [] fn = "playlist_copy_to_user" ->
           {Ret(484, "error", "object", "absent", FALSE,
                {"error"}),
            Ret(490, "error", "object", "absent", FALSE,
                {"error"}),
            Ret(510, "error", "object", "absent", FALSE,
                {"error"}),
            Ret(515, "error", "object", "absent", FALSE,
                {"error"}),
            Ret(526, "error", "object", "absent", FALSE,
                {"error"}),
            Ret(546, "ambiguous", "object", "absent", FALSE,
                {"error", "matches"}),
            Ret(573, "error", "object", "absent", FALSE,
                {"error"}),
            Ret(577, "error", "object", "absent", FALSE,
                {"error"}),
            Ret(585, "success", "object", "success", FALSE,
                {"status", "message"}),
            Ret(593, "error", "object", "absent", FALSE,
                {"error"}),
            Ret(598, "error", "object", "absent", TRUE,
                {"error"})}
      [] fn = "playlist_add_to" ->
           {Ret(620, "error", "object", "absent", FALSE,
                {"error"}),
            Ret(627, "error", "object", "absent", FALSE,
                {"error"}),
            Ret(633, "error", "object", "absent", FALSE,
                {"error"}),
            Ret(656, "error", "object", "absent", FALSE,
                {"error"}),
            Ret(661, "error", "object", "absent", FALSE,
                {"error"}),
            Ret(672, "error", "object", "absent", FALSE,
                {"error"}),
            Ret(692, "ambiguous", "object", "absent", FALSE,
                {"error", "matches"}),
            Ret(712, "error", "object", "absent", FALSE,
                {"error"}),
            Ret(723, "error", "object", "absent", FALSE,
                {"error"}),
            Ret(728, "error", "object", "absent", FALSE,
                {"error"}),
            Ret(735, "success", "object", "success", FALSE,
                {"status", "message"}),
            Ret(743, "error", "object", "absent", FALSE,
                {"error"}),
            Ret(748, "error", "object", "absent", TRUE,
                {"error"})}
      [] fn = "playlist_remove_from" ->
           {Ret(768, "error", "object", "absent", FALSE,
                {"error"}),
            Ret(775, "error", "object", "absent", FALSE,
                {"error"}),
            Ret(795, "error", "object", "absent", FALSE,
                {"error"}),
            Ret(800, "error", "object", "absent", FALSE,
                {"error"}),
            Ret(811, "error", "object", "absent", FALSE,
                {"error"}),
            Ret(831, "ambiguous", "object", "absent", FALSE,
                {"error", "matches"}),
            Ret(855, "error", "object", "absent", FALSE,
                {"error"}),
            Ret(861, "error", "object", "absent", FALSE,
                {"error"}),
            Ret(868, "success", "object", "success", FALSE,
                {"status", "message"}),
            Ret(876, "error", "object", "absent", FALSE,
                {"error"}),
            Ret(881, "error", "object", "absent", TRUE,
                {"error"})}
      [] fn = "playlist_delete" ->
           {Ret(897, "error", "object", "absent", FALSE,
                {"error"}),
            Ret(920, "error", "object", "absent", FALSE,
                {"error"}),
            Ret(925, "error", "object", "absent", FALSE,
                {"error"}),
            Ret(936, "error", "object", "absent", FALSE,
                {"error"}),
            Ret(956, "ambiguous", "object", "absent", FALSE,
                {"error", "matches"}),
            Ret(972, "success", "object", "success", FALSE,
                {"status", "message"}),
            Ret(980, "error", "object", "absent", FALSE,
                {"error"}),
            Ret(985, "error", "object", "absent", TRUE,
                {"error"})}
      [] fn = "playlist_get_contents" ->
           {Ret(1001, "error", "object", "absent", FALSE,
                {"error"}),
            Ret(1024, "error", "object", "absent", FALSE,
                {"error"}),
            Ret(1029, "error", "object", "absent", FALSE,
                {"error"}),
            Ret(1040, "error", "object", "absent", FALSE,
                {"error"}),
            Ret(1060, "ambiguous", "object", "absent", FALSE,
                {"error", "matches"}),
            Ret(1120, "success", "object", "absent", FALSE,
                {"title", "ratingKey", "type", "summary", "duration", "item_count", "items"}),
            Ret(1122, "error", "object", "absent", FALSE,
                {"error"}),
            Ret(1127, "error", "object", "absent", TRUE,
                {"error"})}
      [] OTHER -> {}


Returns(fn) == MediaReturns(fn) \cup PlaylistReturns(fn)

\* the tools that look an entity up by title when no id is given
LooksUpByTitle(fn) ==
    fn \in ToolNames \ {"media_search", "playlist_list", "playlist_create"}
\* the request that lookup sends when no library is named
LookupRequest(fn) ==
    IF MediaReturns(fn) # {} THEN "plex.search" ELSE "plex.playlists"

\* "results[:10]"
ResultLimit == 10
\* the numbers of entities a title matches in the model
MatchCounts == (0 .. 3) \cup (ResultLimit .. MaxMatches)

Min(a, b) == IF a <= b THEN a ELSE b

\* the entities a lookup returns, in the order the server lists them: media
\* items for plex.search and library.search, playlists for plex.playlists
MediaItem(i) ==
    [title |-> "Alien", type |-> IF i % 2 = 1 THEN "movie" ELSE "show",
     ratingKey |-> 100 + i]
PlaylistItem(i) ==
    [title |-> "Mix", ratingKey |-> 200 + i, playlistType |-> "audio",
     leafCount |-> i]
SearchResults(n) == [i \in 1 .. n |-> MediaItem(i)]
MatchingPlaylists(n) == [i \in 1 .. n |-> PlaylistItem(i)]

\* getattr(obj, name, default)
GetAttr(obj, name, default) == IF name \in DOMAIN obj THEN obj[name] ELSE default

\* media_info (the keys every entry has; "year" and the episode keys are
\* added for the items that have them)
MediaInfo(i, item) ==
    [index |-> i,
     title |-> GetAttr(item, "title", "Unknown"),
     type |-> GetAttr(item, "type", "unknown"),
     rating_key |-> GetAttr(item, "ratingKey", None)]

media_listMutantUnbounded(results) ==
    [i \in 1 .. Len(results) |-> MediaInfo(i, results[i])]

\* "for i, item in enumerate(results[:10], 1): ... media_list.append(media_info)"
media_list(results) ==
    [i \in 1 .. Min(Len(results), ResultLimit) |-> MediaInfo(i, results[i])]

\* "for p in matching_playlists: matches.append({...})"
matches(matching_playlists) ==
    [i \in 1 .. Len(matching_playlists) |->
       [title |-> matching_playlists[i].title,
        id |-> matching_playlists[i].ratingKey,
        type |-> matching_playlists[i].playlistType,
        item_count |-> matching_playlists[i].leafCount]]

ResponseMutantBareList(r, n) ==
    [kind |-> "text", message |-> << >>, path |-> r.path,
     json |-> IF r.path = "ambiguous" THEN "array" ELSE r.json,
     keys |-> r.keys, status |-> r.status,
     count |-> IF r.path = "ambiguous" /\ "count" \in r.keys THEN n ELSE None,
     results |-> IF r.path # "ambiguous" THEN << >>
                 ELSE IF "results" \in r.keys THEN media_list(SearchResults(n))
                 ELSE IF "matches" \in r.keys \/ r.json = "array"
                        THEN matches(MatchingPlaylists(n))
                 ELSE << >>]

\* the text "return json.dumps(...)" of the return statement r hands to the
\* caller, n being the number of entities the title matched: what kind of
\* JSON value it is, its keys, and the candidates it lists
Response(r, n) ==
    [kind |-> "text", message |-> << >>, path |-> r.path, json |-> r.json,
     keys |-> r.keys, status |-> r.status,
     count |-> IF r.path = "ambiguous" /\ "count" \in r.keys THEN n ELSE None,
     results |-> IF r.path # "ambiguous" THEN << >>
                 ELSE IF "results" \in r.keys THEN media_list(SearchResults(n))
                 ELSE IF "matches" \in r.keys \/ r.json = "array"
                        THEN matches(MatchingPlaylists(n))
                 ELSE << >>]

\* the titles the callers search for: the arguments media_title and
\* playlist_title
media_title == "Alien"
playlist_title == "Mix"
SearchedTitle(fn) == IF MediaReturns(fn) # {} THEN media_title ELSE playlist_title

\* the line of the return statement under "if not results:" and under
\* "if not matching_playlists:" (0 for a tool without a title lookup)
NotFoundReturn(fn) ==
    CASE fn = "media_get_details" -> 319
      [] fn = "media_edit_metadata" -> 599
      [] fn = "media_get_artwork" -> 841
      [] fn = "media_delete" -> 996
      [] fn = "media_set_artwork" -> 1108
      [] fn = "media_list_available_artwork" -> 1261
      [] fn = "playlist_edit" -> 250
      [] fn = "playlist_upload_poster" -> 381
      [] fn = "playlist_copy_to_user" -> 526
      [] fn = "playlist_add_to" -> 672
      [] fn = "playlist_remove_from" -> 811
      [] fn = "playlist_delete" -> 936
      [] fn = "playlist_get_contents" -> 1040
      [] OTHER -> 0

\* the text of the answer's "message" (of its "error" in the playlist
\* tools), as the pieces of the f-string; the texts that no property reads
\* are left empty:
\* f"No media found matching '{media_title}'",
\* f"No playlist found with title '{playlist_title}'"
Message(fn, r) ==
    IF r.line = NotFoundReturn(fn)
      THEN IF MediaReturns(fn) # {}
             THEN <<"No media found matching '", media_title, "'">>
             ELSE <<"No playlist found with title '", playlist_title, "'">>
      ELSE << >>

\* which return statements the code can reach after a title lookup that
\* matched n entities (n = -1: no lookup was made)
ReturnAllowed(fn, r, n) ==
    CASE n >= 2 -> r.path = "ambiguous"
      [] n = 0 -> r.line = NotFoundReturn(fn)
      [] OTHER -> r.path # "ambiguous" /\ r.line # NotFoundReturn(fn)

\* exceptions that a statement of a tool's body raises (all of them
\* subclasses of Exception)
BodyExceptions == {"NotFound", "BadRequest", "AttributeError"}

(* ------------------------- the bodies of the tools ------------------- *)

(* A tool's body is a function of its arguments and of what the server      *)
(* answers to each request: it yields the requests the body sent, in order, *)
(* and the return statement it left through.  The record "a" holds the      *)
(* arguments of the call under their names in the source, and how each      *)
(* request ends ("ok" or "raises") under the name of the request.  An empty *)
(* string stands for an argument that is None or empty ("if not x").        *)

\* a request sent to the server: the method called and the ratingKey of the
\* entity it is called on (None for a request on the server or a library)
Req(op, on) == [op |-> op, on |-> on]

\* what a body did: the requests it sent and the line of the return statement
\* that ended it
Out(calls, line) == [calls |-> calls, line |-> line]

TitleMatchMutantTakesFirst(n) == IF n = 0 THEN "none" ELSE "one"

\* "if not results: return ..." / "if len(results) > 1: return ..." /
\* "media = results[0]", and the same on matching_playlists
TitleMatch(n) ==
    CASE n = 0 -> "none"
      [] n > 1 -> "ambiguous"
      [] OTHER -> "one"

\* the search of a media item by title: in the named library, or on the
\* whole server
MediaLookupCalls(a) ==
    IF a.library_name # ""
      THEN <<Req("plex.library.section", None), Req("library.search", None)>>
      ELSE <<Req("plex.search", None)>>

\* how that search ends: "inner" when plex.library.section raises NotFound
\* inside the try around it, "outer" when a request raises anything else (or
\* raises outside that try), else what TitleMatch says of the results
MediaLookup(a) ==
    CASE a.lookup = "NotFound" /\ a.library_name # "" ->
           [calls |-> <<Req("plex.library.section", None)>>, end |-> "inner",
            key |-> None]
      [] a.lookup # "ok" ->
           [calls |-> <<Head(MediaLookupCalls(a))>>, end |-> "outer", key |-> None]
      [] OTHER ->
           [calls |-> MediaLookupCalls(a), end |-> TitleMatch(a.n),
            key |-> IF TitleMatch(a.n) = "one"
                      THEN SearchResults(a.n)[1].ratingKey ELSE None]

\* media_delete
media_delete(a) ==
    IF a.connection # "ok" THEN Out(<< >>, 1052)
    ELSE IF a.media_id = None /\ a.media_title = "" THEN Out(<< >>, 959)
    ELSE IF a.media_id # None
      THEN LET fetch == <<Req("plex.fetchItem", a.media_id)>> IN
           IF a.fetchItem # "ok" THEN Out(fetch, 973)
           ELSE LET calls == Append(fetch, Req("media.delete", a.media_id)) IN
                IF a.delete # "ok" THEN Out(calls, 1052) ELSE Out(calls, 1042)
      ELSE LET l == MediaLookup(a) IN
           CASE l.end = "inner" -> Out(l.calls, 986)
             [] l.end = "outer" -> Out(l.calls, 1052)
             [] l.end = "none" -> Out(l.calls, 996)
             [] l.end = "ambiguous" -> Out(l.calls, 1023)
             [] OTHER ->
                  LET calls == Append(l.calls, Req("media.delete", l.key)) IN
                  IF a.delete # "ok" THEN Out(calls, 1052) ELSE Out(calls, 1042)

\* the search of a playlist, by playlist_id when it is given and else by
\* title: "resolved" with the playlist's key, or the reason why not
PlaylistLookup(a) ==
    IF a.playlist_id # None
      THEN LET fetch == <<Req("plex.fetchItem", a.playlist_id)>>
               both == Append(fetch, Req("plex.playlists", None))
           IN CASE a.fetchItem = "ok" ->
                     [calls |-> fetch, end |-> "resolved", key |-> a.playlist_id]
                [] a.playlists # "ok" ->
                     [calls |-> both, end |-> "id_error", key |-> None]
                [] a.listed ->
                     [calls |-> both, end |-> "resolved", key |-> a.playlist_id]
                [] OTHER ->
                     [calls |-> both, end |-> "id_not_found", key |-> None]
      ELSE LET list == <<Req("plex.playlists", None)>> IN
           CASE a.playlists # "ok" ->
                  [calls |-> list, end |-> "outer", key |-> None]
             [] TitleMatch(a.n) = "one" ->
                  [calls |-> list, end |-> "resolved",
                   key |-> MatchingPlaylists(a.n)[1].ratingKey]
             [] OTHER ->
                  [calls |-> list, end |-> TitleMatch(a.n), key |-> None]

\* playlist_delete
playlist_delete(a) ==
    IF a.connection # "ok" THEN Out(<< >>, 985)
    ELSE IF a.playlist_id = None /\ a.playlist_title = "" THEN Out(<< >>, 897)
    ELSE LET l == PlaylistLookup(a) IN
         CASE l.end = "id_not_found" -> Out(l.calls, 920)
           [] l.end = "id_error" -> Out(l.calls, 925)
           [] l.end = "outer" -> Out(l.calls, 985)
           [] l.end = "none" -> Out(l.calls, 936)
           [] l.end = "ambiguous" -> Out(l.calls, 956)
           [] OTHER ->
                LET calls == Append(l.calls, Req("playlist.delete", l.key)) IN
                IF a.delete # "ok" THEN Out(calls, 980) ELSE Out(calls, 972)

(* media_search.  content_type is held as the sequence of its words and   *)
(* commas ("movies,tv" is <<"movies", ",", "tv">>, None and "" are << >>),  *)
(* so that '"," in content_type' is computed from the value.                *)

\* the keys of content_type_map (line 68-75)
content_type_map == {"movie", "show", "episode", "track", "album", "artist"}

\* '"," in content_type'
HasComma(content_type) == \E i \in 1 .. Len(content_type) : content_type[i] = ","

\* 'content_type in content_type_map' (the operand is one string)
InMap(content_type) == Len(content_type) = 1 /\ content_type[1] \in content_type_map

KeepItemMutantUnmappedOnly(content_type, item_type) ==
    ~ (/\ content_type # << >>
       /\ ~HasComma(content_type)
       /\ ~InMap(content_type)
       /\ <<item_type>> # content_type)

\* line 126-142: the two "continue" of the loop; the item is appended when
\* neither is taken.  ("and" evaluates content_type_map only when
\* content_type is not empty, which is when line 68 has defined it.)
KeepItem(content_type, item_type) ==
    /\ ~ (/\ content_type # << >>
          /\ ~HasComma(content_type)
          /\ ~InMap(content_type)
          /\ <<item_type>> # content_type)
    /\ ~ (/\ content_type # << >>
          /\ InMap(content_type)
          /\ ~HasComma(content_type)
          /\ content_type # <<item_type>>)

\* "params" as the words of the query string (line 57-90, urlencode)
SearchParams(a) ==
    <<"query=", a.query, "&X-Plex-Token=", a.token,
      "&limit=100&includeCollections=1&includeExternalMedia=1">>
    \o (CASE a.content_type = << >> -> << >>
          [] HasComma(a.content_type) -> <<"&searchTypes=">> \o a.content_type
          [] InMap(a.content_type) ->
               <<"&searchTypes=", "mapped", "&type=">> \o a.content_type
          [] OTHER -> <<"&type=">> \o a.content_type)

\* line 93: search_url
search_url(a) == <<a.url, "/library/search?">> \o SearchParams(a)

\* str(e) of what requests.get, raise_for_status and response.json raise:
\* the errors of requests name the URL of the request
ErrorText(exc, url) ==
    CASE exc = "HTTPError" -> <<"401 Client Error: Unauthorized for url: ">> \o url
      [] exc = "ConnectionError" ->
           <<"HTTPConnectionPool: Max retries exceeded with url: ">> \o Tail(url)
      [] OTHER -> <<exc>>

\* one round of "for search_result in data[...]": acc holds results_by_type
\* (a function from the types seen to the lists of their items) and
\* total_count
RECURSIVE SearchLoop(_, _, _)
SearchLoop(content_type, search_results, acc) ==
    IF search_results = << >> THEN acc
    ELSE LET search_result == Head(search_results)
             rest == Tail(search_results)
         IN IF ~search_result.Metadata
              THEN SearchLoop(content_type, rest, acc)
            ELSE IF ~KeepItem(content_type, search_result.type)
              THEN SearchLoop(content_type, rest, acc)
            ELSE LET ty == search_result.type
                     by == acc.results_by_type
                     formatted_item ==
                       [type |-> ty, rating_key |-> search_result.ratingKey]
                 IN SearchLoop(content_type, rest,
                      [results_by_type |->
                         [k \in DOMAIN by \cup {ty} |->
                            IF k = ty
                              THEN Append(IF ty \in DOMAIN by THEN by[ty] ELSE << >>,
                                          formatted_item)
                              ELSE by[k]],
                       total_count |-> acc.total_count + 1])

\* media_search
media_search(a) ==
    LET get == <<Req("requests.get", None)>>
        none == [results_by_type |-> [k \in {} |-> << >>], total_count |-> 0]
    IN CASE a.get # "ok" ->
              Out(get, 260) @@ none @@
              [text |-> <<"Error searching for media: ">>
                          \o ErrorText(a.get, search_url(a))]
         [] ~a.container ->
              Out(get, 104) @@ none @@
              [text |-> <<"No results found for '", a.query, "'.">>]
         [] OTHER ->
              Out(get, 248)
              @@ SearchLoop(a.content_type, a.SearchResult, none)
              @@ [text |-> <<"Found results for '", a.query, "'">> \o a.content_type]

\* the types of the items the server returns (one of them a key of
\* content_type_map) and the values of content_type
ItemTypes == {"movie", "season", "unknown"}
ContentTypes == {<< >>, <<"movie">>, <<"season">>, <<"movies", ",", "tv">>}

\* the entries of "SearchResult": with "Metadata" of some type, or without
SearchResultsOfLen(n) ==
    [1 .. n -> [Metadata : BOOLEAN, type : ItemTypes]]
WithKeys(results) ==
    [i \in 1 .. Len(results) |->
       [Metadata |-> results[i].Metadata, type |-> results[i].type,
        ratingKey |-> MediaItem(i).ratingKey]]

\* the calls of media_search
media_searchCalls ==
    {[query |-> media_title, content_type |-> ct, get |-> g, container |-> c,
      SearchResult |-> WithKeys(sr), url |-> plex_url, token |-> plex_token] :
       ct \in ContentTypes,
       g \in {"ok", "HTTPError", "ConnectionError", "JSONDecodeError"},
       c \in BOOLEAN,
       sr \in UNION {SearchResultsOfLen(n) : n \in 0 .. MaxResults}}

\* line 1148-1162 and 1164-1178: one of the two artwork blocks of
\* media_set_artwork.  "done" holds the requests sent and the changes listed
\* so far; the block ends the call ("line" set) or goes on ("line" 0)
ArtworkBlock(done, key, path, url, exists, upload, op, what, missing) ==
    CASE path # "" /\ ~exists ->
           [calls |-> done.calls, changes |-> done.changes, line |-> missing]
      [] path # "" \/ url # "" ->
           [calls |-> Append(done.calls, Req(op, key)),
            changes |-> IF upload = "ok"
                          THEN Append(done.changes,
                                      <<what, IF path # "" THEN "file" ELSE "URL">>)
                          ELSE done.changes,
            line |-> IF upload = "ok" THEN 0 ELSE 1191]
      [] OTHER -> [calls |-> done.calls, changes |-> done.changes, line |-> 0]

\* media_set_artwork
media_set_artwork(a) ==
    LET none == [changes |-> << >>] IN
    IF a.connection # "ok" THEN Out(<< >>, 1191) @@ none
    ELSE IF a.poster_path = "" /\ a.poster_url = ""
            /\ a.background_path = "" /\ a.background_url = ""
      THEN Out(<< >>, 1085) @@ none
    ELSE LET l == MediaLookup(a) IN
         CASE l.end = "inner" -> Out(l.calls, 1098) @@ none
           [] l.end = "outer" -> Out(l.calls, 1191) @@ none
           [] l.end = "none" -> Out(l.calls, 1108) @@ none
           [] l.end = "ambiguous" -> Out(l.calls, 1135) @@ none
           [] OTHER ->
                LET poster ==
                      ArtworkBlock([calls |-> l.calls, changes |-> << >>], l.key,
                                   a.poster_path, a.poster_url, a.poster_exists,
                                   a.uploadPoster, "media.uploadPoster", "poster",
                                   1154)
                    background ==
                      ArtworkBlock(poster, l.key,
                                   a.background_path, a.background_url,
                                   a.background_exists, a.uploadArt,
                                   "media.uploadArt", "background art", 1170)
                IN IF poster.line # 0 THEN poster
                   ELSE IF background.line # 0 THEN background
                   ELSE [background EXCEPT !.line = 1180]

ResolveTitlesMutantSkipsMissing(titles, present) ==
    [items |-> SelectSeq(titles, LAMBDA t : t \in present), missing |-> ""]

\* the loops over item_titles of playlist_create (line 143-160) and of
\* playlist_remove_from (line 846-858): the items of the titles that resolve
\* (one item per title), up to the first title that does not, which ends the
\* call
RECURSIVE ResolveTitles(_, _)
ResolveTitles(titles, present) ==
    IF titles = << >> THEN [items |-> << >>, missing |-> ""]
    ELSE IF Head(titles) \notin present
      THEN [items |-> << >>, missing |-> Head(titles)]
    ELSE LET rest == ResolveTitles(Tail(titles), present)
         IN [items |-> <<Head(titles)>> \o rest.items, missing |-> rest.missing]

\* the requests of k rounds of the loop of playlist_create
RECURSIVE SearchRounds(_, _)
SearchRounds(library_name, k) ==
    IF k = 0 THEN << >>
    ELSE (IF library_name # "" THEN <<Req("plex.library.section", None)>> ELSE << >>)
         \o <<Req("search_scope.search", None)>>
         \o SearchRounds(library_name, k - 1)

\* playlist_create
playlist_create(a) ==
    LET r == ResolveTitles(a.item_titles, a.present)
        rounds == Len(r.items) + (IF r.missing # "" THEN 1 ELSE 0)
        searched == SearchRounds(a.library_name, rounds)
        none == [named |-> "", items |-> << >>, item_count |-> None]
    IN CASE a.connection # "ok" -> Out(<< >>, 187) @@ none
         [] a.library_name # "" /\ a.section # "ok" /\ a.item_titles # << >> ->
              Out(<<Req("plex.library.section", None)>>, 187) @@ none
         [] r.missing # "" ->
              Out(searched, 157) @@ [none EXCEPT !.named = r.missing]
         [] r.items = << >> -> Out(searched, 163) @@ none
         [] a.createPlaylist # "ok" ->
              Out(Append(searched, Req("plex.createPlaylist", None)), 187)
              @@ [none EXCEPT !.items = r.items]
         [] OTHER ->
              Out(Append(searched, Req("plex.createPlaylist", None)), 173)
              @@ [named |-> "", items |-> r.items, item_count |-> Len(r.items)]

\* playlist_remove_from
playlist_remove_from(a) ==
    LET none == [named |-> "", items |-> << >>, item_count |-> None] IN
    IF a.connection # "ok" THEN Out(<< >>, 881) @@ none
    ELSE IF a.playlist_id = None /\ a.playlist_title = "" THEN Out(<< >>, 768) @@ none
    ELSE IF a.item_titles = << >> THEN Out(<< >>, 775) @@ none
    ELSE LET l == PlaylistLookup(a) IN
         CASE l.end = "id_not_found" -> Out(l.calls, 795) @@ none
           [] l.end = "id_error" -> Out(l.calls, 800) @@ none
           [] l.end = "outer" -> Out(l.calls, 881) @@ none
           [] l.end = "none" -> Out(l.calls, 811) @@ none
           [] l.end = "ambiguous" -> Out(l.calls, 831) @@ none
           [] OTHER ->
                LET listed == Append(l.calls, Req("playlist.items", l.key))
                    r == ResolveTitles(a.item_titles, a.current)
                    removed == Append(listed, Req("playlist.removeItems", l.key))
                IN CASE a.items # "ok" -> Out(listed, 881) @@ none
                     [] r.missing # "" ->
                          Out(listed, 855) @@ [none EXCEPT !.named = r.missing]
                     [] r.items = << >> -> Out(listed, 861) @@ none
                     [] a.removeItems # "ok" ->
                          Out(removed, 876) @@ [none EXCEPT !.items = r.items]
                     [] OTHER ->
                          Out(removed, 868) @@ [none EXCEPT !.items = r.items]

\* the search of a media item by media_id when it is given and else by
\* title (media_get_artwork, media_list_available_artwork): "resolved" with
\* the item's key, or the reason why not
MediaLookupById(a) ==
    IF a.media_id # None
      THEN LET fetch == <<Req("plex.fetchItem", a.media_id)>> IN
           IF a.fetchItem = "ok"
             THEN [calls |-> fetch, end |-> "resolved", key |-> a.media_id]
             ELSE [calls |-> fetch, end |-> "id_not_found", key |-> None]
      ELSE LET l == MediaLookup(a) IN
           IF l.end = "one" THEN [l EXCEPT !.end = "resolved"] ELSE l

\* line 874 and line 1300: f"{self._plex_url}{path}?X-Plex-Token={self._plex_token}"
ArtworkUrl(a, path) == <<a.url, path, "?X-Plex-Token=", a.token>>

\* media_get_artwork; "text" holds the strings of the answer that are built
\* from the configuration or from an error
media_get_artwork(a) ==
    LET plain == [text |-> << >>] IN
    IF a.connection # "ok" THEN Out(<< >>, 937) @@ plain
    ELSE IF a.media_id = None /\ a.media_title = "" THEN Out(<< >>, 795) @@ plain
    ELSE IF a.art_type \notin {"poster", "art", "background"}
      THEN Out(<< >>, 804) @@ plain
    ELSE LET l == MediaLookupById(a) IN
         CASE l.end = "id_not_found" -> Out(l.calls, 818) @@ plain
           [] l.end = "inner" -> Out(l.calls, 831) @@ plain
           [] l.end = "outer" -> Out(l.calls, 937) @@ plain
           [] l.end = "none" -> Out(l.calls, 841) @@ plain
           [] l.end = "ambiguous" -> Out(l.calls, 849) @@ plain
           [] ~a.has_artwork -> Out(l.calls, 866) @@ plain
           [] OTHER ->
                LET full_url == ArtworkUrl(a, "/library/metadata/thumb")
                    calls == Append(l.calls, Req("requests.get", l.key))
                IN CASE a.get # "ok" ->
                          Out(calls, 937)
                          @@ [text |-> <<"Error getting media artwork: ">>
                                         \o ErrorText(a.get, full_url)]
                     [] a.save_to_file /\ a.write # "ok" ->
                          Out(calls, 937)
                          @@ [text |-> <<"Error getting media artwork: ",
                                         "Permission denied">>]
                     [] a.save_to_file ->
                          Out(calls, 903)
                          @@ [text |-> IF a.output_path # ""
                                         THEN <<"Artwork saved to '", a.output_path, "'">>
                                         ELSE <<"Artwork saved to '", media_title, "_",
                                                a.art_type, ".jpg", "'">>]
                     [] OTHER -> Out(calls, 924) @@ [text |-> full_url]

\* line 1289-1303: the entries of available_artwork, as the thumb_url of
\* each artwork that has a thumb
RECURSIVE ThumbUrls(_, _)
ThumbUrls(a, artwork_items) ==
    IF artwork_items = << >> THEN << >>
    ELSE (IF Head(artwork_items)
            THEN ArtworkUrl(a, "/library/metadata/file") ELSE << >>)
         \o ThumbUrls(a, Tail(artwork_items))

\* media_list_available_artwork
media_list_available_artwork(a) ==
    LET plain == [text |-> << >>] IN
    IF a.connection # "ok" THEN Out(<< >>, 1318) @@ plain
    ELSE IF a.media_id = None /\ a.media_title = "" THEN Out(<< >>, 1215) @@ plain
    ELSE IF a.art_type \notin {"poster", "art", "background"}
      THEN Out(<< >>, 1224) @@ plain
    ELSE LET l == MediaLookupById(a) IN
         CASE l.end = "id_not_found" -> Out(l.calls, 1238) @@ plain
           [] l.end = "inner" -> Out(l.calls, 1251) @@ plain
           [] l.end = "outer" -> Out(l.calls, 1318) @@ plain
           [] l.end = "none" -> Out(l.calls, 1261) @@ plain
           [] l.end = "ambiguous" -> Out(l.calls, 1269) @@ plain
           [] OTHER ->
                LET calls ==
                      Append(l.calls,
                             Req(IF a.art_type = "poster"
                                   THEN "media.posters" ELSE "media.arts", l.key))
                IN IF a.posters # "ok" THEN Out(calls, 1318) @@ plain
                   ELSE Out(calls, 1305) @@ [text |-> ThumbUrls(a, a.artwork_items)]

\* the basic attributes of media_edit_metadata, in the order of lines
\* 642-692, by the key each one has in edit_params
BasicAttrs ==
    <<"title", "summary", "year", "rating", "contentRating", "studio", "tagline",
      "titleSort", "originalTitle">>

\* the media item that is edited: the value each basic attribute has, its
\* genres and its labels
current_value == "old"
current_genres == {"Horror"}
current_labels == {"Kids"}

\* an argument that is not given: None for a basic attribute and for a list
NotGiven == "None"
NoneList == <<"None">>

\* line 699-719 and line 722-742: the requests of the genres (labels) block
\* and the entries it appends to changes
TagBlock(current, new, add, remove, addOp, removeOp, of, key) ==
    IF new # NoneList
      THEN [calls |-> <<Req(removeOp, key)>>
                      \o (IF new # << >> THEN <<Req(addOp, key)>> ELSE << >>),
            changes |-> <<[kind |-> "replaced", of |-> of]>>]
      ELSE LET Absent(tag) == tag \notin current
               Present(tag) == tag \in current
               added == SelectSeq(add, Absent)
               removed == SelectSeq(remove, Present)
           IN [calls |-> [i \in 1 .. Len(added) |-> Req(addOp, key)]
                         \o [i \in 1 .. Len(removed) |-> Req(removeOp, key)],
               changes |-> (IF add # << >>
                              THEN <<[kind |-> "added", of |-> of]>> ELSE << >>)
                           \o (IF remove # << >>
                                 THEN <<[kind |-> "removed", of |-> of]>> ELSE << >>)]

\* the request that raises: none, media.edit, or the requests on genres and
\* labels
RequestRaises(request, op) ==
    \/ request = "edit" /\ op = "media.edit"
    \/ request = "tag" /\ op # "media.edit"

\* media_edit_metadata
media_edit_metadata(a) ==
    LET none == [changes |-> << >>] IN
    IF a.connection # "ok" THEN Out(<< >>, 764) @@ none
    ELSE LET l == MediaLookup(a) IN
         CASE l.end = "inner" -> Out(l.calls, 589) @@ none
           [] l.end = "outer" -> Out(l.calls, 764) @@ none
           [] l.end = "none" -> Out(l.calls, 599) @@ none
           [] l.end = "ambiguous" -> Out(l.calls, 626) @@ none
           [] OTHER ->
                LET Differs(k) == a.basic[k] # NotGiven /\ a.basic[k] # current_value
                    edit_params == SelectSeq(BasicAttrs, Differs)
                    edit == IF edit_params # << >>
                              THEN <<Req("media.edit", l.key)>> ELSE << >>
                    genres == TagBlock(current_genres, a.new_genres, a.add_genres,
                                       a.remove_genres, "media.addGenre",
                                       "media.removeGenre", "genres", l.key)
                    labels == TagBlock(current_labels, a.new_labels, a.add_labels,
                                       a.remove_labels, "media.addLabel",
                                       "media.removeLabel", "labels", l.key)
                    sent == edit \o genres.calls \o labels.calls
                    changes == [i \in 1 .. Len(edit_params) |->
                                  [kind |-> "set", of |-> edit_params[i]]]
                               \o genres.changes \o labels.changes
                    raising == {i \in 1 .. Len(sent) : RequestRaises(a.request, sent[i].op)}
                IN IF raising # {}
                     THEN LET first == CHOOSE i \in raising : \A j \in raising : i <= j
                          IN Out(l.calls \o SubSeq(sent, 1, first), 764) @@ none
                   ELSE IF changes = << >> THEN Out(l.calls \o sent, 745) @@ none
                   ELSE Out(l.calls \o sent, 752) @@ [changes |-> changes]

\* how a request ends, and how the search of a media item ends
Ends == {"ok", "raises"}
LookupEnds == {"ok", "NotFound", "raises"}

\* the calls of the two tools that delete
media_deleteCalls ==
    [media_id : {None, MediaItem(1).ratingKey}, media_title : {"", media_title},
     library_name : {"", "Movies"}, connection : Ends, fetchItem : Ends,
     lookup : LookupEnds, n : MatchCounts, delete : Ends]
playlist_deleteCalls ==
    [playlist_id : {None, PlaylistItem(1).ratingKey},
     playlist_title : {"", playlist_title}, connection : Ends, fetchItem : Ends,
     playlists : Ends, listed : BOOLEAN, n : MatchCounts, delete : Ends]

(* -------------------------------- state ------------------------------ *)

VARIABLES
    permissions,    \* PlexMcpServer._permissions
    server,         \* number of PlexMcpServer objects this process has built
    phase,          \* "constructing" (PlexMcpServer.__init__), "serving", or
                    \* "failed" (the constructor raised)
    built,          \* number of modules of ModuleOrder constructed
    mcp_tools,      \* the tools of the shared FastMCP instance, by name
    _plex_client,   \* module -> its PlexClient (PlexMcpTools._plex_client)
    objects,        \* module -> handle -> what happened to that PlexServer object
    now,            \* datetime.now().timestamp()
    remote,         \* how the Plex server answers at this moment
    running,        \* the task that holds the event loop, 0 when none does
    pc,             \* task -> where its call stands
    call,           \* task -> the tool name it was called with
    plex,           \* task -> the local variable "plex" of the tool
    attempts,       \* number of _connect runs the running call has started
    replaced,       \* what _connection held when that _connect run began
    acquired,       \* outcome of connection the running call has just received
    request,        \* the request the running call has just sent
    found,          \* number of entities the running call's title lookup
                    \* matched, -1 when it has made none
    result,         \* the answer of the running call, once it has one
    attempted,      \* the tasks whose call in flight has run _connect
    frame           \* the last call of a tool taken as a whole: the tool, its
                    \* arguments with what the server answers, and what the
                    \* body did

vars ==
    <<permissions, server, phase, built, mcp_tools, _plex_client, objects, now,
      remote, running, pc, call, plex, attempts, replaced, acquired, request, found,
      result, attempted, frame>>

config == <<permissions, server, phase, built, mcp_tools>>
env == <<now, remote>>

\* what is known of a PlexServer object: whether its probe has returned
\* (and when), and whether it was built to replace a stored handle
Free == [state |-> "free", at |-> 0, renews |-> FALSE]
NoResult == [kind |-> "none", message |-> << >>]
NoFrame == [fn |-> "none"]

Init ==
    /\ permissions \in PermissionsType
    /\ server = 1
    /\ phase = "constructing"
    /\ built = 0
    /\ mcp_tools = [n \in {} |-> 0]
    /\ _plex_client = [m \in {} |-> 0]
    /\ objects = [m \in Modules |-> [h \in Handles |-> Free]]
    /\ now = Epoch
    /\ remote \in RemoteStates
    /\ running = 0
    /\ pc = [t \in Tasks |-> "idle"]
    /\ call = [t \in Tasks |-> "none"]
    /\ plex = [t \in Tasks |-> None]
    /\ attempts = 0
    /\ replaced = None
    /\ acquired = NoOutcome
    /\ request = "none"
    /\ found = -1
    /\ result = NoResult
    /\ attempted = {}
    /\ frame = NoFrame

(* ----------------------------- construction -------------------------- *)

\* PlexMediaTools.__init__ / PlexPlaylistTools.__init__ with
\* PlexMcpTools.__init__: the next module of the list in PlexMcpServer.__init__
ConstructTools ==
    /\ phase = "constructing"
    /\ built < Len(ModuleOrder)
    /\ LET m == ModuleOrder[built + 1]
           tools == BoundMethods(server, m, ModuleTools(m, permissions))
       IN /\ _plex_client' =
               [x \in DOMAIN _plex_client \cup {m} |->
                  IF x = m THEN NewPlexClient ELSE _plex_client[x]]
          /\ mcp_tools' = RegisterAll(mcp_tools, tools)
          /\ IF RegisterRaises(mcp_tools, tools)
               THEN phase' = "failed" /\ UNCHANGED built
               ELSE built' = built + 1 /\ UNCHANGED phase
    /\ UNCHANGED <<frame, attempted, found, permissions, server, objects, env, running, pc, call, plex,
                   attempts, replaced, acquired, request, result>>

\* a further PlexMcpServer is built in the same process (an embedding program
\* or a test that builds more than one): "mcp" is a module-level object of
\* common.py, so its tool classes register on the registry that is already
\* filled
ConstructAgain(p) ==
    /\ phase = "constructing"
    /\ built = Len(ModuleOrder)
    /\ server < MaxServers
    /\ server' = server + 1
    /\ permissions' = p
    /\ built' = 0
    /\ UNCHANGED <<frame, attempted, found, phase, mcp_tools, _plex_client, objects, env, running, pc, call,
                   plex, attempts, replaced, acquired, request, result>>

\* PlexMcpServer.start
Start ==
    /\ phase = "constructing"
    /\ built = Len(ModuleOrder)
    /\ phase' = "serving"
    /\ UNCHANGED <<frame, attempted, found, permissions, server, built, mcp_tools, _plex_client, objects,
                   env, running, pc, call, plex, attempts, replaced, acquired,
                   request, result>>

(* ----------------------------- environment --------------------------- *)

\* The clock and the server are observed where the code reads them: between
\* calls, while a call awaits, and around the two requests of _connect.  A
\* change during another synchronous stretch is the same change right after
\* it.
Observable ==
    \/ running = 0
    \/ \E t \in Tasks : running = t /\ pc[t] \in {"constructing", "probing"}

Tick(d) ==
    /\ Observable
    /\ now + d <= Epoch + MaxElapsed
    /\ now' = now + d
    /\ UNCHANGED <<frame, attempted, found, config, _plex_client, objects, remote, running, pc, call,
                   plex, attempts, replaced, acquired, request, result>>

RemoteChange(r) ==
    /\ Observable
    /\ r # remote
    /\ remote' = r
    /\ UNCHANGED <<frame, attempted, found, config, _plex_client, objects, now, running, pc, call,
                   plex, attempts, replaced, acquired, request, result>>

(* ------------------------------- calls ------------------------------- *)

ModuleOfTaskMutantSharedClient(t) == ModuleOrder[1]

\* the module whose bound method the task is running: its tool object holds
\* the PlexClient the call uses
ModuleOfTask(t) == mcp_tools[call[t]].module

\* a PlexServer object stays in the model while the client stores it or a
\* call in flight holds it in "plex"; the others are garbage
Sweep(objs, clients, holders) ==
    [m \in Modules |->
       [h \in Handles |->
          IF \/ (m \in DOMAIN clients /\ clients[m]._connection = h)
             \/ \E t \in Tasks : holders[t] = <<m, h>>
            THEN objs[m][h]
            ELSE Free]]

Holders(plexOf) ==
    [t \in Tasks |->
       IF call[t] \in DOMAIN mcp_tools /\ plexOf[t] # None
         THEN <<ModuleOfTask(t), plexOf[t]>>
         ELSE <<"", None>>]

\* the answer of FastMCP for a name that is not registered (ToolError
\* "Unknown tool")
UnknownTool == [kind |-> "unknown_tool", message |-> << >>]

OuterExceptMutantPropagates(fn, message) == [kind |-> "raised", message |-> message]

\* the "except Exception as e" that closes every tool: the answer is the JSON
\* text of the return statement in that handler, which embeds str(e)
OuterExcept(fn, message) ==
    [Response(CHOOSE r \in Returns(fn) : r.outer, -1) EXCEPT !.message = message]

CallMutantRegistersOnDemand(t, name) ==
    /\ phase = "serving"
    /\ running = 0
    /\ pc[t] = "idle"
    /\ \A u \in Tasks : u < t => pc[u] # "idle"
    /\ running' = t
    /\ call' = [call EXCEPT ![t] = name]
    /\ mcp_tools' =
         IF name \in ToolNames
           THEN add_tool(mcp_tools,
                         BoundMethod(server, CHOOSE m \in Modules : name \in AllTools(m),
                                     name))
           ELSE mcp_tools
    /\ IF name \notin DOMAIN mcp_tools'
         THEN /\ pc' = [pc EXCEPT ![t] = "done"]
              /\ result' = UnknownTool
         ELSE /\ pc' = [pc EXCEPT ![t] =
                          IF Acquires(mcp_tools'[name].fn) THEN "acquire" ELSE "body"]
              /\ UNCHANGED result
    /\ UNCHANGED <<frame, attempted, found, permissions, server, phase, built, _plex_client, objects, env,
                   plex, attempts, replaced, acquired, request>>

\* an inbound call of the tool "name" is dispatched to a new task (the tasks
\* are interchangeable: the first free one takes it)
Call(t, name) ==
    /\ phase = "serving"
    /\ running = 0
    /\ pc[t] = "idle"
    /\ \A u \in Tasks : u < t => pc[u] # "idle"
    /\ running' = t
    /\ call' = [call EXCEPT ![t] = name]
    /\ IF name \notin DOMAIN mcp_tools
         THEN /\ pc' = [pc EXCEPT ![t] = "done"]
              /\ result' = UnknownTool
         ELSE /\ pc' = [pc EXCEPT ![t] =
                          IF Acquires(mcp_tools[name].fn) THEN "acquire" ELSE "body"]
              /\ UNCHANGED result
    /\ UNCHANGED <<frame, attempted, found, config, _plex_client, objects, env, plex, attempts, replaced, acquired,
                   request>>

\* the outcome of connection reaches the tool: "plex" is bound, or the tool's
\* outer except answers
Deliver(t, outcome) ==
    /\ acquired' = [outcome EXCEPT !.at = now]
    /\ IF outcome.kind = "return"
         THEN /\ plex' = [plex EXCEPT ![t] = outcome.value]
              /\ pc' = [pc EXCEPT ![t] = "body"]
              /\ UNCHANGED result
         ELSE /\ pc' = [pc EXCEPT ![t] = "done"]
              /\ result' = OuterExcept(call[t], outcome.message)
              /\ UNCHANGED plex

\* connection, line 36-44, when _connect is not called
ConnectionFresh(t) ==
    /\ pc[t] = "acquire"
    /\ LET m == ModuleOfTask(t) IN
         /\ ~NeedsConnect(_plex_client[m], now)
         /\ Deliver(t, ConnectionResult(_plex_client[m]))
    /\ UNCHANGED <<frame, attempted, found, config, _plex_client, objects, env, running, call, attempts, replaced,
                   request>>

\* connection, line 36-39: _connect is called and the constructor's request
\* is under way
ConnectionStale(t) ==
    /\ pc[t] = "acquire"
    /\ NeedsConnect(_plex_client[ModuleOfTask(t)], now)
    /\ pc' = [pc EXCEPT ![t] = "constructing"]
    /\ attempts' = attempts + 1
    /\ replaced' = _plex_client[ModuleOfTask(t)]._connection
    /\ attempted' = attempted \cup {t}
    /\ UNCHANGED <<frame, found, config, _plex_client, objects, env, running, call, plex,
                   acquired, request, result>>

\* _connect, line 18-29: leaving through the except clause
ConnectFails(t, m, objs, cause) ==
    /\ _plex_client' = [_plex_client EXCEPT ![m] = ConnectExcept(@)]
    /\ objects' = Sweep(objs, _plex_client', Holders(plex))
    /\ Deliver(t, ConnectRaise(plex_url, cause))

\* _connect, line 19-21: PlexServer(...) returns a new object
ConstructorReturns(t) ==
    /\ pc[t] = "constructing"
    /\ remote = "up"
    /\ LET m == ModuleOfTask(t) IN
         /\ \E h \in Handles : objects[m][h] = Free
         /\ LET h == CHOOSE x \in Handles :
                       /\ objects[m][x] = Free
                       /\ \A y \in Handles : objects[m][y] = Free => x <= y
            IN /\ _plex_client' =
                    [_plex_client EXCEPT ![m] = ConnectConstructed(@, h)]
               /\ objects' =
                    Sweep([objects EXCEPT ![m][h] =
                             [state |-> "constructed", at |-> 0,
                              renews |-> _plex_client[m]._connection # None]],
                          _plex_client', Holders(plex))
    /\ pc' = [pc EXCEPT ![t] = "probing"]
    /\ UNCHANGED <<frame, attempted, found, config, env, running, call, plex, attempts, replaced, acquired, request,
                   result>>

\* _connect, line 19-29: PlexServer(...) raises
ConstructorRaises(t, cause) ==
    /\ pc[t] = "constructing"
    /\ remote # "up"
    /\ ConnectFails(t, ModuleOfTask(t), objects, cause)
    /\ UNCHANGED <<frame, attempted, found, config, env, running, call, attempts, replaced, request>>

\* _connect, line 22-23 and 30-31, connection, line 41-44: library.sections()
\* returns
ProbeReturns(t) ==
    /\ pc[t] = "probing"
    /\ remote = "up"
    /\ LET m == ModuleOfTask(t)
           h == _plex_client[m]._connection
       IN /\ _plex_client' = [_plex_client EXCEPT ![m] = ConnectElse(@, now)]
          /\ objects' =
               IF h = None THEN objects
               ELSE [objects EXCEPT ![m][h].state = "probed", ![m][h].at = now]
          /\ Deliver(t, ConnectionResult(_plex_client'[m]))
    /\ UNCHANGED <<frame, attempted, found, config, env, running, call, attempts, replaced, request>>

\* _connect, line 22-29: library.sections() raises
ProbeRaises(t, cause) ==
    /\ pc[t] = "probing"
    /\ remote # "up"
    /\ LET m == ModuleOfTask(t)
           h == _plex_client[m]._connection
       IN ConnectFails(t, m,
                       IF h = None THEN objects
                       ELSE [objects EXCEPT ![m][h].state = "failed"],
                       cause)
    /\ UNCHANGED <<frame, attempted, found, config, env, running, call, attempts, replaced, request>>

\* the tool sends one of its requests
RemoteCall(t, k) ==
    /\ pc[t] \in {"body", "resumed"}
    /\ k \in (IF pc[t] = "body" THEN BodyCalls(call[t]) ELSE ResumedCalls(call[t]))
    /\ found \in {-1, 1}
    /\ request' = k
    /\ attempts' = 0
    /\ replaced' = None
    /\ acquired' = NoOutcome
    /\ UNCHANGED <<frame, attempted, found, config, _plex_client, objects, env, running, pc, call, plex,
                   result>>

\* playlist_upload_poster, line 417-420: the tool awaits the download and
\* gives up the event loop
Suspend(t) ==
    /\ pc[t] = "body"
    /\ Awaits(call[t])
    /\ found \in {-1, 1}
    /\ pc' = [pc EXCEPT ![t] = "awaiting"]
    /\ running' = 0
    /\ request' = "none"
    /\ found' = -1
    /\ attempts' = 0
    /\ replaced' = None
    /\ acquired' = NoOutcome
    /\ UNCHANGED <<frame, attempted, config, _plex_client, objects, env, call, plex, result>>

Resume(t) ==
    /\ pc[t] = "awaiting"
    /\ running = 0
    /\ pc' = [pc EXCEPT ![t] = "resumed"]
    /\ running' = t
    /\ UNCHANGED <<frame, attempted, found, config, _plex_client, objects, env, call, plex, attempts, replaced,
                   acquired, request, result>>

\* the title lookup of the tool returns the n entities that match
TitleLookup(t, n) ==
    /\ pc[t] = "body"
    /\ LooksUpByTitle(call[t])
    /\ found = -1
    /\ found' = n
    /\ request' = LookupRequest(call[t])
    /\ attempts' = 0
    /\ replaced' = None
    /\ acquired' = NoOutcome
    /\ UNCHANGED <<frame, attempted, config, _plex_client, objects, env, running, pc, call, plex,
                   result>>

\* a statement of the tool's body raises and no inner handler is around it:
\* the handler of the outermost try answers
Raises(t, exc) ==
    /\ pc[t] \in {"body", "resumed"}
    /\ found \in {-1, 1}
    /\ pc' = [pc EXCEPT ![t] = "done"]
    /\ result' = OuterExcept(call[t], <<exc>>)
    /\ attempts' = 0
    /\ replaced' = None
    /\ acquired' = NoOutcome
    /\ UNCHANGED <<frame, attempted, config, _plex_client, objects, env, running, call, plex,
                   request, found>>

\* the tool returns its JSON text through one of its return statements
\* outside the outermost handler
Return(t) ==
    /\ pc[t] \in {"body", "resumed"}
    /\ pc' = [pc EXCEPT ![t] = "done"]
    /\ \E r \in Returns(call[t]) :
         /\ ~r.outer
         /\ ReturnAllowed(call[t], r, found)
         /\ result' = [Response(r, found) EXCEPT !.message = Message(call[t], r)]
    /\ attempts' = 0
    /\ replaced' = None
    /\ acquired' = NoOutcome
    /\ UNCHANGED <<frame, attempted, config, _plex_client, objects, env, running, call, plex,
                   request, found>>

\* the answer is sent; the task's frame is gone
Finish(t) ==
    /\ pc[t] = "done"
    /\ running' = 0
    /\ pc' = [pc EXCEPT ![t] = "idle"]
    /\ call' = [call EXCEPT ![t] = "none"]
    /\ plex' = [plex EXCEPT ![t] = None]
    /\ attempts' = 0
    /\ replaced' = None
    /\ acquired' = NoOutcome
    /\ request' = "none"
    /\ found' = -1
    /\ result' = NoResult
    /\ attempted' = attempted \ {t}
    /\ objects' = Sweep(objects, _plex_client,
                        [Holders(plex) EXCEPT ![t] = <<"", None>>])
    /\ UNCHANGED <<frame, config, _plex_client, env>>

\* a step of a call that is being served
TaskStep(t) ==
    \/ ConnectionFresh(t)
    \/ ConnectionStale(t)
    \/ ConstructorReturns(t)
    \/ \E cause \in Causes : ConstructorRaises(t, cause)
    \/ ProbeReturns(t)
    \/ \E cause \in Causes : ProbeRaises(t, cause)
    \/ \E k \in MutatingCalls \cup UNION {BodyCalls(n) : n \in ToolNames} :
         RemoteCall(t, k)
    \/ Suspend(t)
    \/ Resume(t)
    \/ Return(t)
    \/ Finish(t)

\* a step of a tool's body that does not concern the connection
BodyStep(t) ==
    \/ \E n \in MatchCounts : TitleLookup(t, n)
    \/ \E exc \in BodyExceptions : Raises(t, exc)

Next ==
    \/ ConstructTools
    \/ Start
    \/ \E d \in TickSteps : Tick(d)
    \/ \E r \in RemoteStates : RemoteChange(r)
    \/ \E t \in Tasks, name \in CallNames : Call(t, name)
    \/ \E t \in Tasks : TaskStep(t)
    \/ \E t \in Tasks : BodyStep(t)

Spec == Init /\ [][Next]_vars

(* PlexClient never reads which tool called it, and neither the registry   *)
(* nor the requests of a tool read the clock.  The two specifications      *)
(* below explore each side in full and keep the other small.               *)

\* the tools called: one per module, the second of them awaiting
ConnectionCalls == {"media_get_details", "playlist_upload_poster"}

NextConnection ==
    \/ ConstructTools
    \/ Start
    \/ \E d \in TickSteps : Tick(d)
    \/ \E r \in RemoteStates : RemoteChange(r)
    \/ \E t \in Tasks, name \in ConnectionCalls : Call(t, name)
    \/ \E t \in Tasks : TaskStep(t)

SpecConnection == Init /\ [][NextConnection]_vars

\* every tool and every unknown name called, at one clock reading
NextRegistry ==
    \/ ConstructTools
    \/ Start
    \/ \E r \in RemoteStates : RemoteChange(r)
    \/ \E t \in Tasks, name \in CallNames : Call(t, name)
    \/ \E t \in Tasks : TaskStep(t)
    \/ \E t \in Tasks : BodyStep(t)

SpecRegistry == Init /\ [][NextRegistry]_vars

\* the tool that never asks its client for the connection and the tool that
\* awaits, called while the clock runs
AcquireCalls == {"media_search", "playlist_upload_poster"}

NextAcquire ==
    \/ ConstructTools
    \/ Start
    \/ \E d \in TickSteps : Tick(d)
    \/ \E r \in RemoteStates : RemoteChange(r)
    \/ \E t \in Tasks, name \in AcquireCalls : Call(t, name)
    \/ \E t \in Tasks : TaskStep(t)

SpecAcquire == Init /\ [][NextAcquire]_vars

\* the construction alone, of one PlexMcpServer after another, with the Plex
\* server up or down meanwhile
NextConstruction ==
    \/ ConstructTools
    \/ \E p \in PermissionsType : ConstructAgain(p)
    \/ \E r \in RemoteStates : RemoteChange(r)

SpecConstruction == Init /\ [][NextConstruction]_vars

\* the numbers of matches for the tools whose claims do not turn on them
FewMatches == 0 .. 2

\* the calls of media_set_artwork
media_set_artworkCalls ==
    [media_title : {media_title}, library_name : {"", "Movies"},
     poster_path : {"", "poster.jpg"}, poster_url : {"", "http://img/poster"},
     background_path : {"", "art.jpg"}, background_url : {"", "http://img/art"},
     poster_exists : BOOLEAN, background_exists : BOOLEAN,
     connection : Ends, lookup : LookupEnds, n : FewMatches,
     uploadPoster : Ends, uploadArt : Ends]

\* the titles of the media items asked for, and the lists of them
Titles == {"Alien", "Brazil"}
TitleLists == UNION {[1 .. n -> Titles] : n \in 0 .. MaxTitles}

\* the calls of playlist_create and of playlist_remove_from; "present" and
\* "current" are the titles the search finds and the titles of the
\* playlist's items
playlist_createCalls ==
    [playlist_title : {playlist_title}, item_titles : TitleLists,
     library_name : {"", "Movies"}, connection : Ends, section : Ends,
     present : SUBSET Titles, createPlaylist : Ends]
playlist_remove_fromCalls ==
    [playlist_id : {None, PlaylistItem(1).ratingKey},
     playlist_title : {"", playlist_title}, item_titles : TitleLists,
     connection : Ends, fetchItem : Ends, playlists : Ends, listed : BOOLEAN,
     n : FewMatches, items : Ends, current : SUBSET Titles, removeItems : Ends]

\* the calls of media_get_artwork and of media_list_available_artwork;
\* "url" and "token" are the configured _plex_url and _plex_token, and an
\* entry of artwork_items says whether that artwork has a thumb
media_get_artworkCalls ==
    [media_id : {None, MediaItem(1).ratingKey}, media_title : {"", media_title},
     library_name : {""}, art_type : {"poster", "art", "cover"},
     save_to_file : BOOLEAN, output_path : {"", "out.jpg"},
     connection : Ends, fetchItem : Ends, lookup : Ends, n : FewMatches,
     has_artwork : BOOLEAN, get : {"ok", "HTTPError"}, write : Ends,
     url : {plex_url}, token : {plex_token}]
media_list_available_artworkCalls ==
    [media_id : {None, MediaItem(1).ratingKey}, media_title : {"", media_title},
     library_name : {""}, art_type : {"poster", "art", "cover"},
     connection : Ends, fetchItem : Ends, lookup : Ends, n : FewMatches,
     artwork_items : UNION {[1 .. k -> BOOLEAN] : k \in 0 .. MaxResults},
     posters : Ends, url : {plex_url}, token : {plex_token}]

\* the basic attributes a call of media_edit_metadata gives: none, one of
\* the first three with the current or with another value, or two at once
NoBasic == [k \in {BasicAttrs[i] : i \in 1 .. Len(BasicAttrs)} |-> NotGiven]
BasicInputs ==
    {NoBasic}
    \cup {[NoBasic EXCEPT ![BasicAttrs[i]] = v] : i \in 1 .. 3, v \in {"old", "new"}}
    \cup {[NoBasic EXCEPT !["title"] = "new", !["year"] = "new"]}

\* the label arguments of those calls
LabelInputs ==
    {[new_labels |-> NoneList, add_labels |-> << >>, remove_labels |-> << >>],
     [new_labels |-> << >>, add_labels |-> << >>, remove_labels |-> << >>],
     [new_labels |-> NoneList, add_labels |-> <<"Kids">>, remove_labels |-> << >>],
     [new_labels |-> NoneList, add_labels |-> <<"4K">>, remove_labels |-> << >>],
     [new_labels |-> NoneList, add_labels |-> << >>, remove_labels |-> <<"4K">>]}

\* the calls of media_edit_metadata
media_edit_metadataCalls ==
    {[media_title |-> media_title, library_name |-> "", basic |-> b,
      new_genres |-> ng, add_genres |-> ag, remove_genres |-> rg,
      new_labels |-> l.new_labels, add_labels |-> l.add_labels,
      remove_labels |-> l.remove_labels,
      connection |-> c, lookup |-> lk, n |-> n, request |-> rq] :
       b \in BasicInputs,
       ng \in {NoneList, << >>, <<"Drama">>},
       ag \in {<< >>, <<"Horror">>, <<"Drama">>},
       rg \in {<< >>, <<"Horror">>},
       l \in LabelInputs,
       c \in Ends, lk \in Ends, n \in FewMatches,
       rq \in {"none", "edit", "tag"}}

(* A call taken as a whole.  The tools are synchronous from their first    *)
(* statement to their return (but for the one await of                      *)
(* playlist_upload_poster), so that a call of a registered tool is one step *)
(* from its arguments and the server's answers to what its body did.        *)

\* the body of the tool fn
Body(fn, a) ==
    CASE fn = "media_delete" -> media_delete(a)
      [] fn = "playlist_delete" -> playlist_delete(a)
      [] fn = "media_search" -> media_search(a)
      [] fn = "media_set_artwork" -> media_set_artwork(a)
      [] fn = "media_get_artwork" -> media_get_artwork(a)
      [] fn = "media_list_available_artwork" -> media_list_available_artwork(a)
      [] fn = "media_edit_metadata" -> media_edit_metadata(a)
      [] fn = "playlist_create" -> playlist_create(a)
      [] fn = "playlist_remove_from" -> playlist_remove_from(a)

\* the calls of the tool fn that the model makes
Arguments(fn) ==
    CASE fn = "media_delete" -> media_deleteCalls
      [] fn = "playlist_delete" -> playlist_deleteCalls
      [] fn = "media_search" -> media_searchCalls
      [] fn = "media_set_artwork" -> media_set_artworkCalls
      [] fn = "media_get_artwork" -> media_get_artworkCalls
      [] fn = "media_list_available_artwork" -> media_list_available_artworkCalls
      [] fn = "media_edit_metadata" -> media_edit_metadataCalls
      [] fn = "playlist_create" -> playlist_createCalls
      [] fn = "playlist_remove_from" -> playlist_remove_fromCalls

\* a registered tool is called with the arguments a and runs to its return
Invoke(fn, a) ==
    /\ phase = "serving"
    /\ running = 0
    /\ fn \in DOMAIN mcp_tools
    /\ frame.fn = "none"
    /\ frame' = [fn |-> fn, args |-> a, out |-> Body(fn, a)]
    /\ UNCHANGED <<attempted, found, config, _plex_client, objects, env, running, pc,
                   call, plex, attempts, replaced, acquired, request, result>>

\* the answer is sent and the frame is gone
Forget ==
    /\ frame.fn # "none"
    /\ frame' = NoFrame
    /\ UNCHANGED <<attempted, found, config, _plex_client, objects, env, running, pc,
                   call, plex, attempts, replaced, acquired, request, result>>

\* the server built and started, and then the tools of the set fns called
NextBody(fns) ==
    \/ ConstructTools
    \/ Start
    \/ /\ frame.fn = "none"
       /\ \E fn \in fns \cap DOMAIN mcp_tools : \E a \in Arguments(fn) : Invoke(fn, a)
    \/ Forget

\* the two tools that delete
NextDelete == NextBody({"media_delete", "playlist_delete"})
SpecDelete == Init /\ [][NextDelete]_vars

\* media_search alone
NextSearch == NextBody({"media_search"})
SpecSearch == Init /\ [][NextSearch]_vars

\* media_set_artwork alone
NextArtwork == NextBody({"media_set_artwork"})
SpecArtwork == Init /\ [][NextArtwork]_vars

\* the two tools that take a list of item titles
NextTitleLists == NextBody({"playlist_create", "playlist_remove_from"})
SpecTitleLists == Init /\ [][NextTitleLists]_vars

\* the tools that build a URL from the configured token
NextToken ==
    NextBody({"media_search", "media_get_artwork", "media_list_available_artwork"})
SpecToken == Init /\ [][NextToken]_vars

\* the tool that edits the metadata of a media item
NextEdit == NextBody({"media_edit_metadata"})
SpecEdit == Init /\ [][NextEdit]_vars

(* ============================== properties =========================== *)

\* the client of the call that holds the event loop
RunningClient == _plex_client[ModuleOfTask(running)]
RunningObjects == objects[ModuleOfTask(running)]

\* the stored handle of module m was probed successfully and that
\* establishment is at most SESSION_TIMEOUT seconds old / is older
EstablishedWithin(m) ==
    LET h == _plex_client[m]._connection IN
      /\ h # None
      /\ objects[m][h].state = "probed"
      /\ now - objects[m][h].at <= SESSION_TIMEOUT
EstablishedStale(m) ==
    LET h == _plex_client[m]._connection IN
      /\ h # None
      /\ objects[m][h].state = "probed"
      /\ now - objects[m][h].at > SESSION_TIMEOUT

\* the step of task t out of the first line of connection
NoAttemptStep(t) ==
    /\ attempts' = 0
    /\ acquired'.kind = "return"
    /\ acquired'.value = _plex_client[ModuleOfTask(t)]._connection
    /\ _plex_client' = _plex_client
    /\ objects' = objects
AttemptStep(t) ==
    /\ pc'[t] = "constructing"
    /\ attempts' = 1
    /\ _plex_client' = _plex_client

\* C1: while the establishment of the stored handle is at most 1800 seconds
\* old, a call of connection starts no _connect run (the call's attempt count
\* stays 0, the client and its objects are untouched) and returns the stored
\* handle.
C1_NoRedundantProbe ==
    [][\A t \in Tasks :
         (pc[t] = "acquire" /\ EstablishedWithin(ModuleOfTask(t)) /\ pc'[t] # "acquire")
           => NoAttemptStep(t)]_vars

\* a handle handed out without an attempt exactly SESSION_TIMEOUT seconds
\* after its establishment
C1_Witness ==
    /\ running \in Tasks
    /\ acquired.kind = "return"
    /\ attempts = 0
    /\ RunningObjects[acquired.value].state = "probed"
    /\ now - RunningObjects[acquired.value].at = SESSION_TIMEOUT

\* C2: when the establishment of the stored handle is more than 1800 seconds
\* old, the next call of connection starts exactly one _connect run; no call
\* ever starts more than one; and once that run has succeeded the calls made
\* within the new window start none.
C2_RenewOnceWhenStale ==
    /\ [][\A t \in Tasks :
            (pc[t] = "acquire" /\ EstablishedStale(ModuleOfTask(t)) /\ pc'[t] # "acquire")
              => AttemptStep(t)]_vars
    /\ [](attempts <= 1)
    /\ [][\A t \in Tasks :
            (pc[t] = "acquire" /\ pc'[t] # "acquire"
               /\ EstablishedWithin(ModuleOfTask(t))
               /\ objects[ModuleOfTask(t)][_plex_client[ModuleOfTask(t)]._connection].renews)
              => NoAttemptStep(t)]_vars

\* a renewed handle is handed out after one attempt, while an awaiting call
\* still holds the handle of the window before
C2_Witness ==
    /\ running \in Tasks
    /\ acquired.kind = "return"
    /\ attempts = 1
    /\ replaced # None
    /\ \E u \in Tasks :
         /\ pc[u] = "awaiting"
         /\ ModuleOfTask(u) = ModuleOfTask(running)
         /\ plex[u] # acquired.value
         /\ objects[ModuleOfTask(u)][plex[u]].state = "probed"
         /\ now - objects[ModuleOfTask(u)][plex[u]].at > SESSION_TIMEOUT

\* C3: after a failed establishment attempt the client stores no handle and
\* its timestamp is 0, whether the constructor or the probe raised and
\* whether or not a stale handle was being renewed.
C3_FailureClearsState ==
    (running \in Tasks /\ acquired.kind = "raise")
      => /\ RunningClient._connection = None
         /\ RunningClient._last_connection_time = 0

\* the renewal of a stale handle has failed
C3_Witness ==
    /\ running \in Tasks
    /\ acquired.kind = "raise"
    /\ attempts = 1
    /\ replaced # None
    /\ RunningClient._connection = None

\* C4: a failed establishment leaves the client in a state from which the
\* next call of connection starts a new _connect run (whatever the clock
\* reads then), and a call of connection fails only when the server did not
\* answer one of the two requests of that run: with the server reachable it
\* returns a handle.
C4_NoPoisonedState ==
    /\ []((running \in Tasks /\ acquired.kind = "raise")
            => /\ RunningClient._connection = None
               /\ remote # "up"
               /\ attempts = 1)
    /\ [][\A t \in Tasks :
            (pc[t] = "acquire" /\ _plex_client[ModuleOfTask(t)]._connection = None
               /\ pc'[t] # "acquire")
              => AttemptStep(t)]_vars
    /\ [][\A t \in Tasks :
            (pc[t] \in {"constructing", "probing"} /\ remote = "up" /\ pc'[t] # pc[t])
              => \/ pc[t] = "constructing" /\ pc'[t] = "probing"
                 \/ pc[t] = "probing" /\ acquired'.kind = "return"]_vars

\* a call obtains a handle from a client that a failed attempt had emptied:
\* its own attempt found no stored handle, although an awaiting call still
\* holds a handle this client once handed out
C4_Witness ==
    /\ running \in Tasks
    /\ acquired.kind = "return"
    /\ attempts = 1
    /\ replaced = None
    /\ \E u \in Tasks :
         /\ pc[u] = "awaiting"
         /\ ModuleOfTask(u) = ModuleOfTask(running)
         /\ plex[u] # acquired.value
         /\ objects[ModuleOfTask(u)][plex[u]].state = "probed"

\* C5: a handle returned by connection is never None, its probe has returned
\* successfully, and that was at most 1800 seconds before the hand-out.
C5_OnlyProbedHandles ==
    (running \in Tasks /\ acquired.kind = "return")
      => /\ acquired.value # None
         /\ RunningObjects[acquired.value].state = "probed"
         /\ acquired.at - RunningObjects[acquired.value].at <= SESSION_TIMEOUT
         /\ acquired.at - RunningObjects[acquired.value].at >= 0

\* a handle is handed out while an awaiting call holds another handle of the
\* same client, and the server is down again at the hand-out
C5_Witness ==
    /\ running \in Tasks
    /\ acquired.kind = "return"
    /\ attempts = 0
    /\ remote = "down"
    /\ \E u \in Tasks :
         /\ pc[u] = "awaiting"
         /\ ModuleOfTask(u) = ModuleOfTask(running)
         /\ plex[u] # acquired.value

Contains(message, token) == \E i \in 1 .. Len(message) : message[i] = token

\* C6: every error raised by connection has a message that contains the
\* configured URL.
C6_ErrorNamesEndpoint ==
    (running \in Tasks /\ acquired.kind = "raise")
      => Contains(acquired.message, plex_url)

\* a renewal was rejected by the server
C6_Witness ==
    /\ running \in Tasks
    /\ acquired.kind = "raise"
    /\ replaced # None
    /\ Contains(acquired.message, "Unauthorized")
    /\ Contains(acquired.message, plex_url)

\* C7: a call of connection ends in one of two ways: it returns a handle
\* that is not None, or it raises ConnectionError, whatever the constructor
\* or the probe raised.
C7_TwoOutcomes ==
    /\ acquired.kind \in {"none", "return", "raise"}
    /\ acquired.kind = "return" => acquired.value # None
    /\ acquired.kind = "raise" => acquired.exc = "ConnectionError"
    /\ \A t \in Tasks : pc[t] \in {"body", "awaiting", "resumed"} /\ Acquires(call[t])
                          => plex[t] # None

\* a timeout of the constructor reaches the tool as a ConnectionError
C7_Witness ==
    /\ running \in Tasks
    /\ acquired.kind = "raise"
    /\ acquired.exc = "ConnectionError"
    /\ replaced = None
    /\ Contains(acquired.message, "ConnectTimeout")

\* the tier order read < write < delete, and the tier of the branch of
\* __init__ that lists a method
Rank(tier) == CASE tier = READ -> 1 [] tier = WRITE -> 2 [] OTHER -> 3
RequiredTier(name) ==
    CHOOSE tier \in PermissionsType : \E m \in Modules : name \in TierTools(m, tier)

Registered(m) == {n \in DOMAIN mcp_tools : mcp_tools[n].module = m}
Exposed(m, tier) == Range(ModuleTools(m, tier))

\* C8: once the server is constructed, the tools registered for a module are
\* its read tools at tier read, its read and write tools at tier write, all
\* three sets at tier delete; and what a tier exposes, the next tier exposes.
C8_RegisteredByTier ==
    /\ phase = "serving" =>
         \A m \in Modules :
           Registered(m) =
             CASE permissions = READ -> TierTools(m, READ)
               [] permissions = WRITE -> TierTools(m, READ) \cup TierTools(m, WRITE)
               [] OTHER -> TierTools(m, READ) \cup TierTools(m, WRITE)
                             \cup TierTools(m, DELETE)
    /\ \A m \in Modules :
         /\ Exposed(m, READ) \subseteq Exposed(m, WRITE)
         /\ Exposed(m, WRITE) \subseteq Exposed(m, DELETE)

\* at tier write the server serves with the write tools of both modules and
\* without their delete tools
C8_Witness ==
    /\ phase = "serving"
    /\ permissions = WRITE
    /\ {"media_edit_metadata", "playlist_add_to"} \subseteq DOMAIN mcp_tools
    /\ DOMAIN mcp_tools \cap {"media_delete", "playlist_delete", "playlist_remove_from"} = {}

\* C9: a call of a tool whose tier is above the configured one finds no tool
\* of that name (it is answered "unknown tool" and no line of the tool runs);
\* a call of a tool within the configured tier always runs the tool, which
\* answers with its own text: nothing is refused at call time.
C9_FilteredAtRegistration ==
    \A t \in Tasks :
      (running = t /\ call[t] \in ToolNames) =>
        IF Rank(RequiredTier(call[t])) > Rank(permissions)
          THEN /\ call[t] \notin DOMAIN mcp_tools
               /\ pc[t] = "done"
               /\ result = UnknownTool
               /\ request = "none"
          ELSE /\ call[t] \in DOMAIN mcp_tools
               /\ result.kind \in {"none", "text"}

\* at tier read a call of media_edit_metadata is answered "unknown tool"
C9_Witness ==
    /\ permissions = READ
    /\ running \in Tasks
    /\ call[running] = "media_edit_metadata"
    /\ result = UnknownTool

\* C10: at tier read no request that changes the server's data is ever sent;
\* at tier write none of media.delete, playlist.delete, playlist.removeItems
\* is ever sent.
C10_NoMutationBelowTier ==
    /\ request \in MutatingCalls => permissions # READ
    /\ request \in DestructiveCalls => permissions = DELETE

\* at tier write media_edit_metadata removes a genre
C10_Witness ==
    /\ permissions = WRITE
    /\ running \in Tasks
    /\ call[running] = "media_edit_metadata"
    /\ request = "media.removeGenre"

StartupTools(p) ==
    [n \in UNION {Range(ModuleTools(m, p)) : m \in Modules} |->
       BoundMethod(1, CHOOSE m \in Modules : n \in AllTools(m), n)]

\* C13: the registry changes only while the server is being constructed, with
\* no call in flight; once start() serves, it is the registry computed at
\* startup and no step of any call, answered or failed, changes it.
C13_RegistryFixedAtStartup ==
    /\ [](phase = "serving" => mcp_tools = StartupTools(permissions))
    /\ [][phase = "serving" => phase' = "serving" /\ mcp_tools' = mcp_tools]_vars
    /\ [][mcp_tools' # mcp_tools =>
            phase = "constructing" /\ \A t \in Tasks : pc[t] = "idle"]_vars

\* a call of a name that is not registered has been answered while another
\* call awaits: the registry is the one of startup
C13_Witness ==
    /\ phase = "serving"
    /\ permissions = WRITE
    /\ running \in Tasks
    /\ call[running] = "playlist_delete"
    /\ result = UnknownTool
    /\ \E u \in Tasks : pc[u] = "awaiting"
    /\ mcp_tools = StartupTools(WRITE)

\* no PlexServer object exists and no client stores anything
NothingEstablished ==
    /\ \A m \in DOMAIN _plex_client : _plex_client[m] = [_connection |-> None,
                                                         _last_connection_time |-> 0]
    /\ \A m \in Modules, h \in Handles : objects[m][h].state = "free"
    /\ attempts = 0

\* C14: the construction never fails and depends on nothing the Plex server
\* does: its next step can be taken whether the server is up or down, and
\* until start() serves, no client stores a handle and no PlexServer object
\* has been built.  A _connect run begins only in a call of connection made
\* by a tool that is being served, and only such a run stores a handle.
C14_LazyEstablishment ==
    /\ [](phase # "failed")
    /\ [](phase = "constructing" => NothingEstablished)
    /\ []((phase = "constructing" /\ built < Len(ModuleOrder)) => ENABLED ConstructTools)
    /\ []((phase = "constructing" /\ built = Len(ModuleOrder)) => ENABLED Start)
    /\ [][attempts' > attempts =>
            /\ phase = "serving"
            /\ running \in Tasks
            /\ pc[running] = "acquire"
            /\ Acquires(call[running])]_vars
    /\ [][\A m \in DOMAIN _plex_client :
            (m \in DOMAIN _plex_client' /\ _plex_client'[m]._connection # _plex_client[m]._connection)
              => running \in Tasks /\ pc[running] \in {"constructing", "probing"}]_vars

\* the server was constructed and serves while the Plex server is down; a
\* call of a tool that needs a connection has begun a _connect run, and no
\* PlexServer object exists yet
C14_Witness ==
    /\ phase = "serving"
    /\ remote = "down"
    /\ running \in Tasks
    /\ pc[running] = "constructing"
    /\ attempts = 1
    /\ \A m \in Modules : _plex_client[m]._connection = None
    /\ \A m \in Modules, h \in Handles : objects[m][h].state = "free"

\* C15: the client of a module is written only inside a call of connection
\* made by a tool of that module (between the start of _connect and its
\* end), never by a request of a tool and never by a call, a renewal or a
\* failure of another module; constructing a module leaves the clients of
\* the modules constructed before it as they are.
C15_ManagersIndependent ==
    [][\A m \in DOMAIN _plex_client :
         (m \in DOMAIN _plex_client' /\ _plex_client'[m] # _plex_client[m])
           => /\ running \in Tasks
              /\ mcp_tools[call[running]].module = m
              /\ pc[running] \in {"constructing", "probing"}
              /\ request = "none"
              /\ \A x \in DOMAIN _plex_client \ {m} : _plex_client'[x] = _plex_client[x]]_vars

\* the renewal of the playlist module's handle has failed and emptied its
\* client, while the client of the media module still stores its handle
C15_Witness ==
    /\ phase = "serving"
    /\ running \in Tasks
    /\ call[running] \in DOMAIN mcp_tools
    /\ mcp_tools[call[running]].module = "playlist"
    /\ acquired.kind = "raise"
    /\ replaced # None
    /\ _plex_client["playlist"]._connection = None
    /\ _plex_client["media"]._connection # None
    /\ objects["media"][_plex_client["media"]._connection].state = "probed"

\* the running call has its answer, and the answer is a JSON text
Answered == running \in Tasks /\ pc[running] = "done" /\ result.kind = "text"

\* C16: a call of a registered tool never ends with an exception: when
\* connection raises, and when a statement of the body raises, the tool
\* returns a JSON text that is an error answer and embeds the error's text.
C16_NoExceptionEscapes ==
    /\ \A t \in Tasks :
         (pc[t] = "done" /\ call[t] \in DOMAIN mcp_tools)
           => /\ result.kind = "text"
              /\ result.json \in {"object", "array"}
    /\ (running \in Tasks /\ acquired.kind = "raise")
         => /\ pc[running] = "done"
            /\ result.kind = "text"
            /\ result.path = "error"
            /\ result.message = acquired.message
    /\ (Answered /\ result.message # << >>)
         => /\ result.path = "error"
            /\ result.json = "object"
            /\ {"message", "error"} \cap result.keys # {}

\* playlist_delete has answered a NotFound raised in its body with a JSON text
C16_Witness ==
    /\ Answered
    /\ call[running] = "playlist_delete"
    /\ request = "playlist.delete"
    /\ result.message = <<"NotFound">>
    /\ result.path = "error"

C18_StatusDiscriminator ==
    Answered =>
      /\ result.path = "error" =>
           /\ result.json = "object"
           /\ result.status = "error"
           /\ "message" \in result.keys
      /\ result.path = "success" =>
           /\ result.json = "object"
           /\ "status" \in result.keys

\* the tools whose answer to a title matching several entities is the
\* "multiple_results" answer
MultipleResultsTools ==
    {fn \in ToolNames : \E r \in Returns(fn) : r.status = "multiple_results"}

C20_AmbiguityNotAnError ==
    (Answered /\ found >= 2)
      => /\ result.status # "error"
         /\ "error" \notin result.keys

\* C21 as stated: when the title lookup of a call matched no entity, the
\* answer has status "error" and a message that contains the searched
\* title, and the lookup stays the last request of the call.
C21_NotFoundIsStatusError ==
    /\ (running \in Tasks /\ found = 0)
         => request = LookupRequest(call[running])
    /\ (Answered /\ found = 0)
         => /\ result.status = "error"
            /\ Contains(result.message, SearchedTitle(call[running]))

\* the calls in flight, other than the running one, that use the client of
\* the running call and have run _connect themselves
OtherEstablishers ==
    {u \in Tasks \ {running} :
       /\ u \in attempted
       /\ call[u] \in DOMAIN mcp_tools
       /\ ModuleOfTask(u) = ModuleOfTask(running)}

\* C22: nothing keeps a call from establishing while another call that has
\* established is in flight: a call that reads the handle as absent or as
\* older than SESSION_TIMEOUT runs _connect whatever the other calls have
\* done; and the client then stores what the latest attempt wrote: the new
\* handle with the time of its probe (or nothing when the attempt failed),
\* never the handle it replaced, which the other call keeps using on its own.
C22_NoMutualExclusion ==
    /\ [][\A t \in Tasks :
            (/\ pc[t] = "acquire"
             /\ pc'[t] # "acquire"
             /\ ~EstablishedWithin(ModuleOfTask(t)))
              => /\ pc'[t] = "constructing"
                 /\ t \in attempted']_vars
    /\ [](  (running \in Tasks /\ running \in attempted /\ acquired.kind = "return")
             => /\ RunningClient._connection = acquired.value
                /\ RunningClient._last_connection_time = acquired.at
                /\ acquired.value # replaced
                /\ \A u \in OtherEstablishers :
                     plex[u] # None => plex[u] # RunningClient._connection)
    /\ [](  (running \in Tasks /\ running \in attempted /\ acquired.kind = "raise")
             => RunningClient = NewPlexClient)

\* two calls are in flight on the playlist client and both have run
\* _connect: the first awaits its download and holds the handle it probed,
\* the second found that handle stale and has just stored its own
C22_Witness ==
    /\ running \in Tasks
    /\ running \in attempted
    /\ acquired.kind = "return"
    /\ \E u \in OtherEstablishers :
         /\ pc[u] = "awaiting"
         /\ plex[u] = replaced
         /\ replaced # None

\* C23 as stated: a call that has sent a request holds a handle its client
\* gave it, and the client stores a handle at that moment.
C23_AcquireBeforeRequest ==
    (running \in Tasks /\ request # "none")
      => /\ plex[running] # None
         /\ RunningClient._connection # None

\* C23: a call of a tool other than media_search that has sent a request
\* holds a handle its client gave it, and as long as the call has not
\* awaited, that handle is the one the client stores; media_search sends its
\* request without having asked the client.
C23_AcquireBeforeRequestExceptSearch ==
    (running \in Tasks /\ request # "none")
      => IF call[running] = "media_search"
           THEN plex[running] = None
           ELSE /\ plex[running] # None
                /\ pc[running] = "body"
                     => RunningClient._connection = plex[running]

\* playlist_upload_poster, back from its download, uploads through the
\* handle it acquired while the client stores none (a renewal by another
\* call has failed meanwhile)
C23_Witness ==
    /\ running \in Tasks
    /\ call[running] = "playlist_upload_poster"
    /\ pc[running] = "resumed"
    /\ request = "playlist.uploadPoster"
    /\ plex[running] # None
    /\ RunningClient._connection = None

\* the delete requests among the requests of a body, by position
DeleteOps == {"media.delete", "playlist.delete"}
Deletes(calls) == {i \in 1 .. Len(calls) : calls[i].op \in DeleteOps}

\* C24: a call of media_delete or playlist_delete sends at most one delete
\* request, as its last request, and only for the one entity its lookup
\* resolved: the entity fetched by the given id, or the single entity that
\* matches the given title; when the lookup matched none or several
\* entities or failed, no delete request is sent.  The success answer is
\* given only after the delete request.
C24_DeleteOnlyUnique ==
    /\ frame.fn = "media_delete" =>
         LET a == frame.args
             calls == frame.out.calls
         IN /\ Cardinality(Deletes(calls)) <= 1
            /\ frame.out.line = 1042 => Deletes(calls) # {}
            /\ Deletes(calls) # {} =>
                 /\ Deletes(calls) = {Len(calls)}
                 /\ a.connection = "ok"
                 /\ IF a.media_id # None
                      THEN /\ a.fetchItem = "ok"
                           /\ calls[Len(calls)].on = a.media_id
                      ELSE /\ a.media_title # ""
                           /\ a.lookup = "ok"
                           /\ a.n = 1
                           /\ calls[Len(calls)].on = SearchResults(1)[1].ratingKey
    /\ frame.fn = "playlist_delete" =>
         LET a == frame.args
             calls == frame.out.calls
         IN /\ Cardinality(Deletes(calls)) <= 1
            /\ frame.out.line = 972 => Deletes(calls) # {}
            /\ Deletes(calls) # {} =>
                 /\ Deletes(calls) = {Len(calls)}
                 /\ a.connection = "ok"
                 /\ IF a.playlist_id # None
                      THEN /\ a.fetchItem = "ok" \/ (a.playlists = "ok" /\ a.listed)
                           /\ calls[Len(calls)].on = a.playlist_id
                      ELSE /\ a.playlist_title # ""
                           /\ a.playlists = "ok"
                           /\ a.n = 1
                           /\ calls[Len(calls)].on = MatchingPlaylists(1)[1].ratingKey

\* media_delete, given a title that one item matches, has deleted that item
C24_Witness ==
    /\ frame.fn = "media_delete"
    /\ frame.args.media_id = None
    /\ frame.args.n = 1
    /\ frame.out.line = 1042
    /\ Deletes(frame.out.calls) = {Len(frame.out.calls)}

\* the entries of the answer's results_by_type, and the sum of the lengths
\* of its lists
Returned_items(by) ==
    UNION {{by[k][i] : i \in 1 .. Len(by[k])} : k \in DOMAIN by}
RECURSIVE SumOfLengths(_, _)
SumOfLengths(by, keys) ==
    IF keys = {} THEN 0
    ELSE LET k == CHOOSE x \in keys : TRUE
         IN Len(by[k]) + SumOfLengths(by, keys \ {k})

\* the entries of "SearchResult" that have "Metadata", as the answer lists
\* them
Offered(search_results) ==
    {[type |-> search_results[i].type, rating_key |-> search_results[i].ratingKey] :
       i \in {j \in 1 .. Len(search_results) : search_results[j].Metadata}}

\* C25: in an answer of media_search that lists results, when content_type
\* is one word (a key of content_type_map or not) the items returned are
\* exactly the offered items of that type; when content_type is absent or
\* has a comma, every offered item is returned; every item is listed under
\* its own type, and total_count is the sum of the lengths of the lists.
C25_OneTypeFilter ==
    (frame.fn = "media_search" /\ frame.out.line = 248)
      => LET a == frame.args
             by == frame.out.results_by_type
         IN /\ IF a.content_type # << >> /\ ~HasComma(a.content_type)
                 THEN Returned_items(by) =
                        {it \in Offered(a.SearchResult) : <<it.type>> = a.content_type}
                 ELSE Returned_items(by) = Offered(a.SearchResult)
            /\ \A k \in DOMAIN by : \A i \in 1 .. Len(by[k]) : by[k][i].type = k
            /\ frame.out.total_count = SumOfLengths(by, DOMAIN by)
            /\ frame.out.total_count = Cardinality(Returned_items(by))

\* a search for the mapped type "movie" was offered a movie and an item of
\* another type, and returned the movie only
C25_Witness ==
    /\ frame.fn = "media_search"
    /\ frame.out.line = 248
    /\ frame.args.content_type = <<"movie">>
    /\ \E it \in Offered(frame.args.SearchResult) : it.type # "movie"
    /\ frame.out.total_count = 1

\* the upload requests among the requests of a body, by position
Uploads(calls) ==
    {i \in 1 .. Len(calls) : calls[i].op \in {"media.uploadPoster", "media.uploadArt"}}

\* C26 as stated: when media_set_artwork returns the error for a missing
\* poster file or background file, the call has sent no upload request.
C26_NoUploadBeforeMissingFile ==
    (frame.fn = "media_set_artwork" /\ frame.out.line \in {1154, 1170})
      => Uploads(frame.out.calls) = {}

\* the positions of the requests op among the requests of a body
Sent(calls, op) == {i \in 1 .. Len(calls) : calls[i].op = op}

\* the first title of the list that is not among those present ("" when
\* there is none)
RECURSIVE FirstMissing(_, _)
FirstMissing(titles, present) ==
    IF titles = << >> THEN ""
    ELSE IF Head(titles) \in present THEN FirstMissing(Tail(titles), present)
    ELSE Head(titles)

\* C27: playlist_create sends createPlaylist, and playlist_remove_from sends
\* removeItems, at most once, as the last request, and only when item_titles
\* is not empty and every title of it resolved, with one item per title;
\* when a title does not resolve, the answer is the error that names the
\* first such title and neither request is sent; and the success answer of
\* playlist_create has item_count = len(item_titles).
C27_AllOrNothingTitles ==
    /\ frame.fn = "playlist_create" =>
         LET a == frame.args
             out == frame.out
             created == Sent(out.calls, "plex.createPlaylist")
             missing == FirstMissing(a.item_titles, a.present)
         IN /\ Cardinality(created) <= 1
            /\ created # {} =>
                 /\ created = {Len(out.calls)}
                 /\ a.item_titles # << >>
                 /\ missing = ""
                 /\ out.items = a.item_titles
            /\ out.line = 157 => (missing # "" /\ out.named = missing /\ created = {})
            /\ (missing # "" /\ out.line # 187) => out.line = 157
            /\ out.line = 173 =>
                 (created # {} /\ out.item_count = Len(a.item_titles))
    /\ frame.fn = "playlist_remove_from" =>
         LET a == frame.args
             out == frame.out
             removed == Sent(out.calls, "playlist.removeItems")
             missing == FirstMissing(a.item_titles, a.current)
         IN /\ Cardinality(removed) <= 1
            /\ removed # {} =>
                 /\ removed = {Len(out.calls)}
                 /\ a.item_titles # << >>
                 /\ missing = ""
                 /\ out.items = a.item_titles
            /\ out.line = 855 => (missing # "" /\ out.named = missing /\ removed = {})
            /\ out.line = 868 => removed # {}

\* playlist_create was given two titles of which the second does not
\* resolve: it has searched for both, has created nothing, and has answered
\* with the error naming the second
C27_Witness ==
    /\ frame.fn = "playlist_create"
    /\ Len(frame.args.item_titles) = 2
    /\ frame.args.item_titles[1] \in frame.args.present
    /\ frame.out.line = 157
    /\ frame.out.named = frame.args.item_titles[2]
    /\ Sent(frame.out.calls, "search_scope.search") = {1, 2}
    /\ Sent(frame.out.calls, "plex.createPlaylist") = {}

\* a call is inside _connect: between the call of the constructor and the
\* return of the probe
InConnect == \E t \in Tasks : pc[t] \in {"constructing", "probing"}

\* C28: whenever no call is inside _connect, each PlexClient has either no
\* handle and the timestamp 0, or a handle whose probe succeeded together
\* with the time at which that probe returned.
C28_FieldsAgree ==
    ~InConnect =>
      \A m \in DOMAIN _plex_client :
        LET c == _plex_client[m] IN
          /\ c._connection = None <=> c._last_connection_time = 0
          /\ c._connection # None =>
               /\ objects[m][c._connection].state = "probed"
               /\ objects[m][c._connection].at = c._last_connection_time

\* no call is inside _connect and a client stores a handle that replaced an
\* earlier one, with the time of the later probe
C28_Witness ==
    /\ ~InConnect
    /\ \E m \in DOMAIN _plex_client :
         LET c == _plex_client[m] IN
           /\ c._connection # None
           /\ objects[m][c._connection].renews
           /\ c._last_connection_time > Epoch
           /\ objects[m][c._connection].at = c._last_connection_time

\* another value the token could have
OtherToken == "OTHER"

\* C29 as stated: the text a tool returns does not depend on the token: the
\* same call under another token returns the same text.
C29_TokenSecret ==
    frame.fn \in {"media_search", "media_get_artwork", "media_list_available_artwork"}
      => Body(frame.fn, [frame.args EXCEPT !.token = OtherToken]).text
           = frame.out.text

\* the requests that change the media item, and those an entry of changes
\* speaks of
EditOps ==
    {"media.edit", "media.addGenre", "media.removeGenre", "media.addLabel",
     "media.removeLabel"}
OpsOf(change) ==
    CASE change.kind = "set" -> {"media.edit"}
      [] change.of = "genres" /\ change.kind = "added" -> {"media.addGenre"}
      [] change.of = "genres" /\ change.kind = "removed" -> {"media.removeGenre"}
      [] change.of = "genres" -> {"media.addGenre", "media.removeGenre"}
      [] change.of = "labels" /\ change.kind = "added" -> {"media.addLabel"}
      [] change.of = "labels" /\ change.kind = "removed" -> {"media.removeLabel"}
      [] OTHER -> {"media.addLabel", "media.removeLabel"}

\* C30 as stated: a call of media_edit_metadata that reaches its end answers
\* "no_changes" exactly when it sent no request that changes the media item,
\* and every entry of the changes of a "success" answer has a request of its
\* kind among the requests sent.
C30_FaithfulChanges ==
    frame.fn = "media_edit_metadata" /\ frame.out.line \in {745, 752}
      => LET sent == {frame.out.calls[i].op : i \in DOMAIN frame.out.calls}
         IN /\ frame.out.line = 745 <=> sent \cap EditOps = {}
            /\ \A i \in DOMAIN frame.out.changes :
                 OpsOf(frame.out.changes[i]) \cap sent # {}

\* every answer of a body is a return statement of its tool
BodyReturnsListed ==
    frame.fn # "none" => frame.out.line \in {r.line : r \in Returns(frame.fn)}

====
